---- MODULE Spec2Model ----
(***************************************************************************)
(* State-machine model of the YREC contracts:                              *)
(*   - YRECTokenFlexible (strict 1:1 backed, whitelisted ERC-20 ledger)    *)
(*   - SimpleMultisig    (nonce-ordered confirm/execute wallet)            *)
(*   - YRECTimelock      (delay-gated operation queue)                     *)
(* Every external call is one action.  A handler is an operator that runs  *)
(* the Solidity body statement by statement on a copy of the storage and   *)
(* returns [err, st]; the EVM keeps st only when the call did not revert.  *)
(***************************************************************************)
EXTENDS Integers, FiniteSets, Sequences, TLC

VARIABLES
    contract,   \* which deployed contract this run sends its calls to
    token,      \* storage of YRECTokenFlexible
    wallet,     \* storage of SimpleMultisig
    timelock,   \* storage of YRECTimelock
    simple,     \* storage of YRECTokenSimple
    now         \* block.timestamp, in days

vars == <<contract, token, wallet, timelock, simple, now>>

(***************************************************************************)
(* Bounds of the model                                                     *)
(***************************************************************************)
MaxAmount == 2      \* amounts passed to mint/burn/transfer range over 0..MaxAmount
MaxSupply == 3      \* mint is explored while totalSupply + amount <= MaxSupply
MaxTx == 2          \* submitTransaction is explored while transactionCount < MaxTx
MaxTime == 2        \* the clock is advanced MaxTime days at most

(***************************************************************************)
(* Addresses                                                               *)
(***************************************************************************)
ZERO == "0x0"                                   \* address(0)
Accounts == {"owner", "custodian", "user"}      \* initialOwner, custodianWallet, an outsider
Addr == Accounts \cup {ZERO}
Amounts == 0..MaxAmount

(***************************************************************************)
(* The EVM's call semantics                                                *)
(***************************************************************************)
OK == "ok"
Ok(st) == [err |-> OK, st |-> st]
Revert(e, st) == [err |-> e, st |-> st]

\* Variant: a failed call keeps the writes made before the failure.
Commit_KeepWrites(before, r) == r.st

\* A reverted call discards every storage write it made.
Commit(before, r) == IF r.err = OK THEN r.st ELSE before

(***************************************************************************)
(* YRECTokenFlexible                                                       *)
(***************************************************************************)
DEFAULT_ADMIN_ROLE == "DEFAULT_ADMIN_ROLE"
MINTER_ROLE == "MINTER_ROLE"
BURNER_ROLE == "BURNER_ROLE"
PAUSER_ROLE == "PAUSER_ROLE"
WHITELIST_MANAGER_ROLE == "WHITELIST_MANAGER_ROLE"
COMPLIANCE_OFFICER_ROLE == "COMPLIANCE_OFFICER_ROLE"
Roles == {DEFAULT_ADMIN_ROLE, MINTER_ROLE, BURNER_ROLE, PAUSER_ROLE,
          WHITELIST_MANAGER_ROLE, COMPLIANCE_OFFICER_ROLE}

MAX_BATCH_SIZE == 500

\* initialize(initialOwner, custodianWallet, _timelock)
Flex_initialize(initialOwner, custodianWallet) ==
    [ balances         |-> [a \in Addr |-> 0],
      totalSupply      |-> 0,
      whitelist        |-> [a \in Addr |-> a \in {custodianWallet, initialOwner}],
      totalIPValue     |-> 0,
      ipValuePerHolder |-> [a \in Addr |-> 0],
      transfersEnabled |-> FALSE,
      paused           |-> FALSE,
      roles            |-> [r \in Roles |-> {initialOwner}],
      logs             |-> {} ]

\* emit ComplianceViolation(from, to, reason): logs holds the event records of
\* the call in progress; a revert discards them with the rest of the call
ComplianceViolation(st, from, to, reason) ==
    [st EXCEPT !.logs = @ \cup {[event |-> "ComplianceViolation",
                                 from |-> from, to |-> to, reason |-> reason]}]

hasRole(st, role, account) == account \in st.roles[role]

\* Variant: mulDiv always rounds up.
mulDiv_Ceil(x, y, denominator, up) ==
    LET q == (x * y) \div denominator
    IN  IF (x * y) % denominator > 0 THEN q + 1 ELSE q

\* Variant: mulDiv always rounds down.
mulDiv_Floor(x, y, denominator, up) ==
    (x * y) \div denominator

\* MathUpgradeable.mulDiv(x, y, denominator, rounding)
mulDiv(x, y, denominator, up) ==
    LET q == (x * y) \div denominator
    IN  IF up /\ (x * y) % denominator > 0 THEN q + 1 ELSE q

\* Variant: the backing check accepts every state.
Flex_validateBacking_Off(st) == Ok(st)

\* _validateBacking(): revert BackingMismatch unless totalSupply() == _totalIPValue
Flex_validateBacking(st) ==
    IF st.totalSupply # st.totalIPValue THEN Revert("BackingMismatch", st) ELSE Ok(st)

\* ERC20Pausable._update then ERC20._update (super._update of the override)
ERC20_update(st, from, to, value) ==
    IF st.paused THEN Revert("EnforcedPause", st)
    ELSE IF from # ZERO /\ st.balances[from] < value
         THEN Revert("ERC20InsufficientBalance", st)
    ELSE LET s1 == IF from = ZERO
                   THEN [st EXCEPT !.totalSupply = @ + value]
                   ELSE [st EXCEPT !.balances[from] = @ - value]
             s2 == IF to = ZERO
                   THEN [s1 EXCEPT !.totalSupply = @ - value]
                   ELSE [s1 EXCEPT !.balances[to] = @ + value]
         IN  Ok(s2)

\* Variant: the whitelist check looks at the sender only.
Flex_update_SenderOnly(st, from, to, value) ==
    IF from # ZERO /\ to # ZERO /\ ~st.transfersEnabled
    THEN Revert("TransfersDisabled", st)
    ELSE IF from # ZERO /\ to # ZERO /\ ~st.whitelist[from]
    THEN Revert("TransferNotAllowed", st)
    ELSE LET r == ERC20_update(st, from, to, value)
         IN  IF r.err # OK THEN r
             ELSE IF from # ZERO /\ to # ZERO /\ value > 0
             THEN LET s1 == r.st
                      fromBalance == s1.balances[from] + value
                      ipValueToTransfer ==
                          IF fromBalance = value
                          THEN s1.ipValuePerHolder[from]
                          ELSE mulDiv(s1.ipValuePerHolder[from], value, fromBalance, FALSE)
                      s2 == [s1 EXCEPT !.ipValuePerHolder[from] = @ - ipValueToTransfer]
                      s3 == [s2 EXCEPT !.ipValuePerHolder[to] = @ + ipValueToTransfer]
                  IN  Ok(s3)
             ELSE r

\* Variant: a transfer debits the sender's backing without crediting the receiver.
Flex_update_NoCredit(st, from, to, value) ==
    IF from # ZERO /\ to # ZERO /\ ~st.transfersEnabled
    THEN Revert("TransfersDisabled", st)
    ELSE IF from # ZERO /\ to # ZERO /\ (~st.whitelist[from] \/ ~st.whitelist[to])
    THEN Revert("TransferNotAllowed", st)
    ELSE LET r == ERC20_update(st, from, to, value)
         IN  IF r.err # OK THEN r
             ELSE IF from # ZERO /\ to # ZERO /\ value > 0
             THEN LET s1 == r.st
                      fromBalance == s1.balances[from] + value
                      ipValueToTransfer ==
                          IF fromBalance = value
                          THEN s1.ipValuePerHolder[from]
                          ELSE mulDiv(s1.ipValuePerHolder[from], value, fromBalance, FALSE)
                  IN  Ok([s1 EXCEPT !.ipValuePerHolder[from] = @ - ipValueToTransfer])
             ELSE r

\* Variant: transfers move balances but leave the per-holder backing where it was.
Flex_update_NoTracking(st, from, to, value) ==
    IF from # ZERO /\ to # ZERO /\ ~st.transfersEnabled
    THEN Revert("TransfersDisabled", st)
    ELSE IF from # ZERO /\ to # ZERO /\ (~st.whitelist[from] \/ ~st.whitelist[to])
    THEN Revert("TransferNotAllowed", st)
    ELSE ERC20_update(st, from, to, value)

\* Variant: the transfersEnabled check applies to mint and burn as well.
Flex_update_NoExemption(st, from, to, value) ==
    IF ~st.transfersEnabled
    THEN Revert("TransfersDisabled", st)
    ELSE IF from # ZERO /\ to # ZERO /\ (~st.whitelist[from] \/ ~st.whitelist[to])
    THEN Revert("TransferNotAllowed",
                ComplianceViolation(st, from, to, "Address not whitelisted"))
    ELSE LET r == ERC20_update(st, from, to, value)
         IN  IF r.err # OK THEN r
             ELSE IF from # ZERO /\ to # ZERO /\ value > 0
             THEN LET s1 == r.st
                      fromBalance == s1.balances[from] + value
                      ipValueToTransfer ==
                          IF fromBalance = value
                          THEN s1.ipValuePerHolder[from]
                          ELSE mulDiv(s1.ipValuePerHolder[from], value, fromBalance, FALSE)
                      s2 == [s1 EXCEPT !.ipValuePerHolder[from] = @ - ipValueToTransfer]
                      s3 == [s2 EXCEPT !.ipValuePerHolder[to] = @ + ipValueToTransfer]
                  IN  Ok(s3)
             ELSE r

\* YRECTokenFlexible._update: compliance checks, super._update, IP value tracking
Flex_update(st, from, to, value) ==
    IF from # ZERO /\ to # ZERO /\ ~st.transfersEnabled
    THEN Revert("TransfersDisabled", st)
    ELSE IF from # ZERO /\ to # ZERO /\ (~st.whitelist[from] \/ ~st.whitelist[to])
    THEN Revert("TransferNotAllowed",
                ComplianceViolation(st, from, to, "Address not whitelisted"))
    ELSE LET r == ERC20_update(st, from, to, value)
         IN  IF r.err # OK THEN r
             ELSE IF from # ZERO /\ to # ZERO /\ value > 0
             THEN LET s1 == r.st
                      fromBalance == s1.balances[from] + value
                      ipValueToTransfer ==
                          IF fromBalance = value
                          THEN s1.ipValuePerHolder[from]
                          ELSE mulDiv(s1.ipValuePerHolder[from], value, fromBalance, FALSE)
                      s2 == [s1 EXCEPT !.ipValuePerHolder[from] = @ - ipValueToTransfer]
                      s3 == [s2 EXCEPT !.ipValuePerHolder[to] = @ + ipValueToTransfer]
                  IN  Ok(s3)
             ELSE r

\* Variant: the accounting-only mint (no amount == ipValue check, no validBacking).
Flex_mint_Legacy(st, sender, to, amount, ipValue) ==
    IF ~hasRole(st, MINTER_ROLE, sender) THEN Revert("AccessControlUnauthorizedAccount", st)
    ELSE IF ~st.whitelist[to] THEN Revert("NotWhitelisted", st)
    ELSE IF ipValue = 0 THEN Revert("InvalidIPValue", st)
    ELSE IF to = ZERO THEN Revert("ERC20InvalidReceiver", st)
    ELSE LET r == ERC20_update(st, ZERO, to, amount)
         IN  IF r.err # OK THEN r
             ELSE LET s1 == [r.st EXCEPT !.totalIPValue = @ + ipValue]
                      s2 == [s1 EXCEPT !.ipValuePerHolder[to] = @ + ipValue]
                  IN  Ok(s2)

\* mint(to, amount, ipValue) onlyRole(MINTER_ROLE) onlyWhitelisted(to) validBacking
Flex_mint(st, sender, to, amount, ipValue) ==
    IF ~hasRole(st, MINTER_ROLE, sender) THEN Revert("AccessControlUnauthorizedAccount", st)
    ELSE IF ~st.whitelist[to] THEN Revert("NotWhitelisted", st)
    ELSE IF ipValue = 0 THEN Revert("InvalidIPValue", st)
    ELSE IF amount # ipValue THEN Revert("BackingMismatch", st)
    ELSE IF to = ZERO THEN Revert("ERC20InvalidReceiver", st)
    ELSE LET r == Flex_update(st, ZERO, to, amount)
         IN  IF r.err # OK THEN r
             ELSE LET s1 == [r.st EXCEPT !.totalIPValue = @ + ipValue]
                      s2 == [s1 EXCEPT !.ipValuePerHolder[to] = @ + ipValue]
                  IN  Flex_validateBacking(s2)

\* Variant: burn lowers the total backing only, not the holder's backing.
Flex_burn_TotalOnly(st, sender, from, amount) ==
    IF ~hasRole(st, BURNER_ROLE, sender) THEN Revert("AccessControlUnauthorizedAccount", st)
    ELSE IF ~(st.balances[from] >= amount) THEN Revert("Insufficient balance", st)
    ELSE IF from = ZERO THEN Revert("ERC20InvalidSender", st)
    ELSE LET r == ERC20_update(st, from, ZERO, amount)
         IN  IF r.err # OK THEN r
             ELSE IF r.st.totalIPValue < amount THEN Revert("Panic", r.st)
             ELSE Flex_validateBacking([r.st EXCEPT !.totalIPValue = @ - amount])

\* burn(from, amount) onlyRole(BURNER_ROLE) validBacking
Flex_burn(st, sender, from, amount) ==
    IF ~hasRole(st, BURNER_ROLE, sender) THEN Revert("AccessControlUnauthorizedAccount", st)
    ELSE LET holderBalance == st.balances[from]
         IN  IF ~(holderBalance >= amount) THEN Revert("Insufficient balance", st)
             ELSE LET ipValueToReduce ==
                          IF holderBalance = amount
                          THEN st.ipValuePerHolder[from]
                          ELSE mulDiv(st.ipValuePerHolder[from], amount, holderBalance, TRUE)
                  IN  IF from = ZERO THEN Revert("ERC20InvalidSender", st)
                      ELSE LET r == Flex_update(st, from, ZERO, amount)
                           IN  IF r.err # OK THEN r
                               ELSE IF r.st.totalIPValue < ipValueToReduce
                                       \/ r.st.ipValuePerHolder[from] < ipValueToReduce
                               THEN Revert("Panic", r.st)
                               ELSE LET s1 == [r.st EXCEPT !.totalIPValue = @ - ipValueToReduce]
                                        s2 == [s1 EXCEPT
                                                 !.ipValuePerHolder[from] = @ - ipValueToReduce]
                                    IN  Flex_validateBacking(s2)

\* ERC20.transfer(to, value): _transfer(msg.sender, to, value)
Flex_transfer(st, sender, to, value) ==
    IF to = ZERO THEN Revert("ERC20InvalidReceiver", st)
    ELSE Flex_update(st, sender, to, value)

\* updateWhitelist(account, whitelisted) onlyRole(WHITELIST_MANAGER_ROLE)
Flex_updateWhitelist(st, sender, account, whitelisted) ==
    IF ~hasRole(st, WHITELIST_MANAGER_ROLE, sender)
    THEN Revert("AccessControlUnauthorizedAccount", st)
    ELSE IF account = ZERO THEN Revert("ZeroAddress", st)
    ELSE Ok([st EXCEPT !.whitelist[account] = whitelisted])

\* batchUpdateWhitelist(accounts, whitelisted) onlyRole(WHITELIST_MANAGER_ROLE).
\* The array is given by its length and the set of its elements: the loop writes
\* the same flag for every nonzero element, so order and repetition do not matter.
Flex_batchUpdateWhitelist_CapExclusive(st, sender, length, elems, whitelisted) ==
    IF ~hasRole(st, WHITELIST_MANAGER_ROLE, sender)
    THEN Revert("AccessControlUnauthorizedAccount", st)
    ELSE IF length >= MAX_BATCH_SIZE THEN Revert("BatchSizeExceeded", st)
    ELSE Ok([st EXCEPT !.whitelist =
                [a \in Addr |-> IF a \in elems /\ a # ZERO THEN whitelisted ELSE @[a]]])

Flex_batchUpdateWhitelist(st, sender, length, elems, whitelisted) ==
    IF ~hasRole(st, WHITELIST_MANAGER_ROLE, sender)
    THEN Revert("AccessControlUnauthorizedAccount", st)
    ELSE IF length > MAX_BATCH_SIZE THEN Revert("BatchSizeExceeded", st)
    ELSE Ok([st EXCEPT !.whitelist =
                [a \in Addr |-> IF a \in elems /\ a # ZERO THEN whitelisted ELSE @[a]]])

\* setTransfersEnabled(enabled) onlyRole(COMPLIANCE_OFFICER_ROLE)
Flex_setTransfersEnabled(st, sender, enabled) ==
    IF ~hasRole(st, COMPLIANCE_OFFICER_ROLE, sender)
    THEN Revert("AccessControlUnauthorizedAccount", st)
    ELSE Ok([st EXCEPT !.transfersEnabled = enabled])

\* Variant: updateTotalIPValue without whenNotPaused.
Flex_updateTotalIPValue_NoPause(st, sender, newTotalValue) ==
    IF ~hasRole(st, COMPLIANCE_OFFICER_ROLE, sender)
    THEN Revert("AccessControlUnauthorizedAccount", st)
    ELSE Ok([st EXCEPT !.totalIPValue = newTotalValue])

\* updateTotalIPValue(newTotalValue) onlyRole(COMPLIANCE_OFFICER_ROLE) whenNotPaused
Flex_updateTotalIPValue(st, sender, newTotalValue) ==
    IF ~hasRole(st, COMPLIANCE_OFFICER_ROLE, sender)
    THEN Revert("AccessControlUnauthorizedAccount", st)
    ELSE IF st.paused THEN Revert("EnforcedPause", st)
    ELSE Ok([st EXCEPT !.totalIPValue = newTotalValue])

\* pause() onlyRole(PAUSER_ROLE): _pause() is whenNotPaused
Flex_pause(st, sender) ==
    IF ~hasRole(st, PAUSER_ROLE, sender) THEN Revert("AccessControlUnauthorizedAccount", st)
    ELSE IF st.paused THEN Revert("EnforcedPause", st)
    ELSE Ok([st EXCEPT !.paused = TRUE])

\* unpause() onlyRole(PAUSER_ROLE): _unpause() is whenPaused
Flex_unpause(st, sender) ==
    IF ~hasRole(st, PAUSER_ROLE, sender) THEN Revert("AccessControlUnauthorizedAccount", st)
    ELSE IF ~st.paused THEN Revert("ExpectedPause", st)
    ELSE Ok([st EXCEPT !.paused = FALSE])

\* AccessControl.grantRole(role, account) onlyRole(getRoleAdmin(role))
Flex_grantRole(st, sender, role, account) ==
    IF ~hasRole(st, DEFAULT_ADMIN_ROLE, sender)
    THEN Revert("AccessControlUnauthorizedAccount", st)
    ELSE Ok([st EXCEPT !.roles[role] = @ \cup {account}])

\* AccessControl.revokeRole(role, account) onlyRole(getRoleAdmin(role))
Flex_revokeRole(st, sender, role, account) ==
    IF ~hasRole(st, DEFAULT_ADMIN_ROLE, sender)
    THEN Revert("AccessControlUnauthorizedAccount", st)
    ELSE Ok([st EXCEPT !.roles[role] = @ \ {account}])

(***************************************************************************)
(* SimpleMultisig                                                          *)
(***************************************************************************)
Owners == {"o1", "o2", "o3"}                \* _owners passed to the constructor
Senders == Owners \cup {"stranger"}         \* msg.sender of a wallet call
\* (to, value, data) of a proposal
Calls == { [to |-> "t1", value |-> 0, data |-> "d1"],
           [to |-> "t2", value |-> 0, data |-> "d2"] }
TxIds == 0..MaxTx
Nonces == 0..MaxTx

\* constructor(_owners, _threshold)
MS_constructor(owners, threshold) ==
    [ owners           |-> owners,
      threshold        |-> threshold,
      transactionCount |-> 0,
      transactions     |-> << >>,
      confirmations    |-> << >>,
      nonce            |-> 0,
      executedTransactionHashes |-> {},
      logs             |-> {} ]

\* emit: add an event record to the logs of the running call. A record is
\* [event, id, args]; the logs field holds the records of the latest
\* successful call (its receipt), and is emptied when a new call begins.
Emit(st, event, id, args) ==
    [st EXCEPT !.logs = @ \cup {[event |-> event, id |-> id, args |-> args]}]
NewCall(st) == [st EXCEPT !.logs = {}]

isOwner(st, a) == a \in st.owners

\* keccak256(abi.encodePacked(to, value, data, _nonce, address(this)))
generateTransactionHash(call, nonce) == <<call.to, call.value, call.data, nonce>>

\* transactions[id] lives at index id + 1 of the sequence
Tx(st, id) == st.transactions[id + 1]
Confs(st, id) == st.confirmations[id + 1]

\* Variant: nothing is written before the target is invoked.
MS_markExecuted_AfterCall(st, transactionId) == st

\* executeTransaction, lines 214-217: the writes made before txn.to.call; the
\* result is the storage the target (and any call it makes back) sees
MS_markExecuted(st, transactionId) ==
    LET s1 == [st EXCEPT !.executedTransactionHashes =
                             @ \cup {Tx(st, transactionId).txHash}]
    IN  [s1 EXCEPT !.transactions[transactionId + 1].executed = TRUE]

\* Variant: the result of the target call is not checked.
MS_executeTransaction_IgnoreFailure(st, transactionId, success) ==
    IF ~(transactionId < st.transactionCount) THEN Revert("Transaction does not exist", st)
    ELSE IF Tx(st, transactionId).executed THEN Revert("Transaction already executed", st)
    ELSE IF ~(Tx(st, transactionId).confirmationCount >= st.threshold)
    THEN Revert("Insufficient confirmations", st)
    ELSE LET s1 == [st EXCEPT !.executedTransactionHashes =
                                  @ \cup {Tx(st, transactionId).txHash}]
             s2 == [s1 EXCEPT !.transactions[transactionId + 1].executed = TRUE]
         IN  Ok(s2)

\* executeTransaction(transactionId) internal transactionExists notExecuted;
\* success is the outcome of txn.to.call{value: txn.value}(txn.data)
MS_executeTransaction(st, transactionId, success) ==
    IF ~(transactionId < st.transactionCount) THEN Revert("Transaction does not exist", st)
    ELSE IF Tx(st, transactionId).executed THEN Revert("Transaction already executed", st)
    ELSE IF ~(Tx(st, transactionId).confirmationCount >= st.threshold)
    THEN Revert("Insufficient confirmations", st)
    ELSE LET s2 == MS_markExecuted(st, transactionId)
         IN  IF ~success THEN Revert("Transaction execution failed", s2)
             ELSE Ok(Emit(s2, "TransactionExecuted", transactionId,
                          Tx(st, transactionId).txHash))

\* Variant: confirming never triggers execution.
MS_confirmTransaction_NoExec(st, sender, transactionId, success) ==
    IF ~isOwner(st, sender) THEN Revert("Not an owner", st)
    ELSE IF ~(transactionId < st.transactionCount) THEN Revert("Transaction does not exist", st)
    ELSE IF Tx(st, transactionId).executed THEN Revert("Transaction already executed", st)
    ELSE IF sender \in Confs(st, transactionId)
    THEN Revert("Transaction already confirmed by this owner", st)
    ELSE LET s1 == [st EXCEPT !.confirmations[transactionId + 1] = @ \cup {sender}]
             s2 == [s1 EXCEPT !.transactions[transactionId + 1].confirmationCount = @ + 1]
         IN  Ok(s2)

\* Variant: confirmTransaction without the per-owner flag check.
MS_confirmTransaction_NoFlagCheck(st, sender, transactionId, success) ==
    IF ~isOwner(st, sender) THEN Revert("Not an owner", st)
    ELSE IF ~(transactionId < st.transactionCount) THEN Revert("Transaction does not exist", st)
    ELSE IF Tx(st, transactionId).executed THEN Revert("Transaction already executed", st)
    ELSE LET s1 == [st EXCEPT !.confirmations[transactionId + 1] = @ \cup {sender}]
             s2 == [s1 EXCEPT !.transactions[transactionId + 1].confirmationCount = @ + 1]
         IN  IF Tx(s2, transactionId).confirmationCount >= s2.threshold
             THEN MS_executeTransaction(s2, transactionId, success)
             ELSE Ok(s2)

\* Variant: execution starts only above the threshold.
MS_confirmTransaction_AboveThreshold(st, sender, transactionId, success) ==
    IF ~isOwner(st, sender) THEN Revert("Not an owner", st)
    ELSE IF ~(transactionId < st.transactionCount) THEN Revert("Transaction does not exist", st)
    ELSE IF Tx(st, transactionId).executed THEN Revert("Transaction already executed", st)
    ELSE IF sender \in Confs(st, transactionId)
    THEN Revert("Transaction already confirmed by this owner", st)
    ELSE LET s1 == [st EXCEPT !.confirmations[transactionId + 1] = @ \cup {sender}]
             s2 == [s1 EXCEPT !.transactions[transactionId + 1].confirmationCount = @ + 1]
             s3 == Emit(s2, "TransactionConfirmed", transactionId, <<sender>>)
         IN  IF Tx(s3, transactionId).confirmationCount > s3.threshold
             THEN MS_executeTransaction(s3, transactionId, success)
             ELSE Ok(s3)

\* confirmTransaction(transactionId) onlyOwner transactionExists notExecuted
MS_confirmTransaction(st, sender, transactionId, success) ==
    IF ~isOwner(st, sender) THEN Revert("Not an owner", st)
    ELSE IF ~(transactionId < st.transactionCount) THEN Revert("Transaction does not exist", st)
    ELSE IF Tx(st, transactionId).executed THEN Revert("Transaction already executed", st)
    ELSE IF sender \in Confs(st, transactionId)
    THEN Revert("Transaction already confirmed by this owner", st)
    ELSE LET s1 == [st EXCEPT !.confirmations[transactionId + 1] = @ \cup {sender}]
             s2 == [s1 EXCEPT !.transactions[transactionId + 1].confirmationCount = @ + 1]
             s3 == Emit(s2, "TransactionConfirmed", transactionId, <<sender>>)
         IN  IF Tx(s3, transactionId).confirmationCount >= s3.threshold
             THEN MS_executeTransaction(s3, transactionId, success)
             ELSE Ok(s3)

\* Variant: revokeConfirmation without notExecuted.
MS_revokeConfirmation_NoExecCheck(st, sender, transactionId) ==
    IF ~isOwner(st, sender) THEN Revert("Not an owner", st)
    ELSE IF ~(transactionId < st.transactionCount) THEN Revert("Transaction does not exist", st)
    ELSE IF sender \notin Confs(st, transactionId)
    THEN Revert("Transaction not confirmed by this owner", st)
    ELSE LET s1 == [st EXCEPT !.confirmations[transactionId + 1] = @ \ {sender}]
             s2 == [s1 EXCEPT !.transactions[transactionId + 1].confirmationCount = @ - 1]
         IN  Ok(s2)

\* revokeConfirmation(transactionId) onlyOwner transactionExists notExecuted
MS_revokeConfirmation(st, sender, transactionId) ==
    IF ~isOwner(st, sender) THEN Revert("Not an owner", st)
    ELSE IF ~(transactionId < st.transactionCount) THEN Revert("Transaction does not exist", st)
    ELSE IF Tx(st, transactionId).executed THEN Revert("Transaction already executed", st)
    ELSE IF sender \notin Confs(st, transactionId)
    THEN Revert("Transaction not confirmed by this owner", st)
    ELSE LET s1 == [st EXCEPT !.confirmations[transactionId + 1] = @ \ {sender}]
             s2 == [s1 EXCEPT !.transactions[transactionId + 1].confirmationCount = @ - 1]
         IN  Ok(s2)

\* Variant: submitting does not consume the nonce.
MS_submitBody_KeepNonce(st, sender, call, nonce, success) ==
    LET txHash == generateTransactionHash(call, nonce)
    IN  IF txHash \in st.executedTransactionHashes
        THEN Revert("TransactionAlreadyExecuted", st)
        ELSE LET transactionId == st.transactionCount
                 s1 == [st EXCEPT !.transactionCount = @ + 1]
                 s2 == [s1 EXCEPT
                          !.transactions = Append(@,
                              [ to |-> call.to, value |-> call.value, data |-> call.data,
                                executed |-> FALSE, confirmationCount |-> 0,
                                nonce |-> nonce, txHash |-> txHash ]),
                          !.confirmations = Append(@, {})]
                 s3 == s2
                 s4 == Emit(s3, "NonceIncremented", s3.nonce, << >>)
                 s5 == Emit(s4, "TransactionSubmitted", transactionId,
                            <<call.to, call.value, call.data, nonce>>)
             IN  MS_confirmTransaction(s5, sender, transactionId, success)

\* The body of submitTransaction after its modifiers
MS_submitBody(st, sender, call, nonce, success) ==
    LET txHash == generateTransactionHash(call, nonce)
    IN  IF txHash \in st.executedTransactionHashes
        THEN Revert("TransactionAlreadyExecuted", st)
        ELSE LET transactionId == st.transactionCount
                 s1 == [st EXCEPT !.transactionCount = @ + 1]
                 s2 == [s1 EXCEPT
                          !.transactions = Append(@,
                              [ to |-> call.to, value |-> call.value, data |-> call.data,
                                executed |-> FALSE, confirmationCount |-> 0,
                                nonce |-> nonce, txHash |-> txHash ]),
                          !.confirmations = Append(@, {})]
                 s3 == [s2 EXCEPT !.nonce = @ + 1]
                 s4 == Emit(s3, "NonceIncremented", s3.nonce, << >>)
                 s5 == Emit(s4, "TransactionSubmitted", transactionId,
                            <<call.to, call.value, call.data, nonce>>)
             IN  MS_confirmTransaction(s5, sender, transactionId, success)

\* Variant: validNonce accepts any nonce up to the current one.
MS_submitTransaction_LaxNonce(st, sender, call, nonce, success) ==
    IF ~isOwner(st, sender) THEN Revert("Not an owner", st)
    ELSE IF nonce > st.nonce THEN Revert("InvalidNonce", st)
    ELSE MS_submitBody(st, sender, call, nonce, success)

\* submitTransaction(to, value, data, _nonce) onlyOwner validNonce(_nonce)
MS_submitTransaction(st, sender, call, nonce, success) ==
    IF ~isOwner(st, sender) THEN Revert("Not an owner", st)
    ELSE IF nonce # st.nonce THEN Revert("InvalidNonce", st)
    ELSE MS_submitBody(st, sender, call, nonce, success)

(***************************************************************************)
(* YRECTimelock (a TimelockController); time is counted in days            *)
(***************************************************************************)
EMERGENCY_DELAY == 2            \* 48 hours
MULTISIG_THRESHOLD == 3
DONE_TIMESTAMP == 1             \* TimelockController._DONE_TIMESTAMP
PROPOSER_ROLE == "PROPOSER_ROLE"
EXECUTOR_ROLE == "EXECUTOR_ROLE"
CANCELLER_ROLE == "CANCELLER_ROLE"

TLSenders == {"proposer", "executor", "admin", "signer1", "signer2", "signer3"}
Signers == {"signer1", "signer2", "signer3"}    \* candidates for emergency signer
NoPredecessor == << >>                          \* bytes32(0)

\* hashOperation(target, value, data, predecessor, salt)
hashOperation(op) == <<op.target, op.value, op.data, op.predecessor, op.salt>>

\* the operations proposed in a run: OpA has no predecessor, OpB names OpA
OpA == [target |-> "t1", value |-> 0, data |-> "d1", predecessor |-> NoPredecessor, salt |-> 0]
OpB == [target |-> "t2", value |-> 0, data |-> "d2", predecessor |-> hashOperation(OpA),
        salt |-> 0]
Operations == {OpA, OpB}
OperationIds == {hashOperation(op) : op \in Operations}
MinDelays == {1}                \* minDelay given to the constructor: 24 hours
Approvable == {hashOperation(OpA)}  \* operation ids given to approveEmergency
Delays == 0..2                  \* delay arguments of schedule

\* constructor(minDelay, proposers, executors, admin)
TL_constructor(minDelay, proposers, executors, admin) ==
    [ minDelay   |-> minDelay,
      timestamps |-> [id \in OperationIds |-> 0],
      roles      |-> [r \in {PROPOSER_ROLE, EXECUTOR_ROLE, CANCELLER_ROLE, DEFAULT_ADMIN_ROLE} |->
                        CASE r = PROPOSER_ROLE -> proposers
                          [] r = CANCELLER_ROLE -> proposers
                          [] r = EXECUTOR_ROLE -> executors
                          [] OTHER -> {admin}],
      emergencySigners       |-> {},
      emergencyApprovals     |-> [id \in OperationIds |-> {}],
      emergencyApprovalCount |-> [id \in OperationIds |-> 0] ]

getTimestamp(st, id) == IF id \in OperationIds THEN st.timestamps[id] ELSE 0
isOperationPending(st, t, id) == getTimestamp(st, id) > DONE_TIMESTAMP
\* Variant: readiness ignores the clock.
isOperationReady_IgnoreTime(st, t, id) == getTimestamp(st, id) > DONE_TIMESTAMP

isOperationReady(st, t, id) ==
    getTimestamp(st, id) > DONE_TIMESTAMP /\ getTimestamp(st, id) <= t
isOperationDone(st, id) == getTimestamp(st, id) = DONE_TIMESTAMP

\* Variant: schedule overwrites an existing entry.
TL_schedule_Overwrite(st, t, sender, op, delay) ==
    IF ~hasRole(st, PROPOSER_ROLE, sender) THEN Revert("AccessControlUnauthorizedAccount", st)
    ELSE IF delay < st.minDelay THEN Revert("TimelockInsufficientDelay", st)
    ELSE Ok([st EXCEPT !.timestamps[hashOperation(op)] = t + delay])

\* TimelockController.schedule(target, value, data, predecessor, salt, delay)
TL_schedule(st, t, sender, op, delay) ==
    IF ~hasRole(st, PROPOSER_ROLE, sender) THEN Revert("AccessControlUnauthorizedAccount", st)
    ELSE IF getTimestamp(st, hashOperation(op)) # 0
    THEN Revert("TimelockUnexpectedOperationState", st)
    ELSE IF delay < st.minDelay THEN Revert("TimelockInsufficientDelay", st)
    ELSE Ok([st EXCEPT !.timestamps[hashOperation(op)] = t + delay])

\* Variant: cancel does not look at the state of the operation.
TL_cancel_AnyState(st, t, sender, id) ==
    IF ~hasRole(st, CANCELLER_ROLE, sender) THEN Revert("AccessControlUnauthorizedAccount", st)
    ELSE Ok([st EXCEPT !.timestamps[id] = 0])

\* TimelockController.cancel(id)
TL_cancel(st, t, sender, id) ==
    IF ~hasRole(st, CANCELLER_ROLE, sender) THEN Revert("AccessControlUnauthorizedAccount", st)
    ELSE IF ~isOperationPending(st, t, id) THEN Revert("TimelockUnexpectedOperationState", st)
    ELSE Ok([st EXCEPT !.timestamps[id] = 0])

\* Variant: execute does not look at the predecessor.
TL_execute_NoPredecessor(st, t, sender, op, success) ==
    IF ~hasRole(st, EXECUTOR_ROLE, sender)
    THEN Revert("AccessControlUnauthorizedAccount", st)
    ELSE IF ~isOperationReady(st, t, hashOperation(op))
    THEN Revert("TimelockUnexpectedOperationState", st)
    ELSE IF ~success THEN Revert("FailedCall", st)
    ELSE Ok([st EXCEPT !.timestamps[hashOperation(op)] = DONE_TIMESTAMP])

\* Variant: execute does not check the result of the call to the target.
TL_execute_IgnoreFailure(st, t, sender, op, success) ==
    IF ~hasRole(st, EXECUTOR_ROLE, sender)
    THEN Revert("AccessControlUnauthorizedAccount", st)
    ELSE IF ~isOperationReady(st, t, hashOperation(op))
    THEN Revert("TimelockUnexpectedOperationState", st)
    ELSE IF op.predecessor # NoPredecessor /\ ~isOperationDone(st, op.predecessor)
    THEN Revert("TimelockUnexecutedPredecessor", st)
    ELSE Ok([st EXCEPT !.timestamps[hashOperation(op)] = DONE_TIMESTAMP])

\* TimelockController.execute(target, value, payload, predecessor, salt);
\* success is the outcome of the call to the target
TL_execute(st, t, sender, op, success) ==
    LET id == hashOperation(op)
    IN  IF ~hasRole(st, EXECUTOR_ROLE, sender)
        THEN Revert("AccessControlUnauthorizedAccount", st)
        ELSE IF ~isOperationReady(st, t, id)
        THEN Revert("TimelockUnexpectedOperationState", st)
        ELSE IF op.predecessor # NoPredecessor /\ ~isOperationDone(st, op.predecessor)
        THEN Revert("TimelockUnexecutedPredecessor", st)
        ELSE IF ~success THEN Revert("FailedCall", st)
        ELSE Ok([st EXCEPT !.timestamps[id] = DONE_TIMESTAMP])

\* scheduleEmergency(target, value, data, predecessor, salt) onlyRole(PROPOSER_ROLE)
TL_scheduleEmergency(st, t, sender, op) ==
    IF ~hasRole(st, PROPOSER_ROLE, sender) THEN Revert("AccessControlUnauthorizedAccount", st)
    ELSE TL_schedule(st, t, sender, op, EMERGENCY_DELAY)

\* approveEmergency(operationId)
TL_approveEmergency(st, t, sender, operationId) ==
    IF sender \notin st.emergencySigners THEN Revert("Not an emergency signer", st)
    ELSE IF ~isOperationPending(st, t, operationId) THEN Revert("Operation not pending", st)
    ELSE IF sender \in st.emergencyApprovals[operationId] THEN Revert("Already approved", st)
    ELSE LET s1 == [st EXCEPT !.emergencyApprovals[operationId] = @ \cup {sender}]
             s2 == [s1 EXCEPT !.emergencyApprovalCount[operationId] = @ + 1]
         IN  Ok(s2)

\* executeEmergency(target, value, payload, predecessor, salt) onlyRole(EXECUTOR_ROLE)
TL_executeEmergency(st, t, sender, op, success) ==
    LET operationId == hashOperation(op)
    IN  IF ~hasRole(st, EXECUTOR_ROLE, sender)
        THEN Revert("AccessControlUnauthorizedAccount", st)
        ELSE IF ~isOperationReady(st, t, operationId) THEN Revert("Operation not ready", st)
        ELSE IF ~(st.emergencyApprovalCount[operationId] >= MULTISIG_THRESHOLD)
        THEN Revert("Insufficient emergency approvals", st)
        ELSE TL_execute(st, t, sender, op, success)

\* addEmergencySigner(signer) onlyRole(DEFAULT_ADMIN_ROLE)
TL_addEmergencySigner(st, sender, signer) ==
    IF ~hasRole(st, DEFAULT_ADMIN_ROLE, sender)
    THEN Revert("AccessControlUnauthorizedAccount", st)
    ELSE IF signer = ZERO THEN Revert("Invalid signer address", st)
    ELSE IF signer \in st.emergencySigners THEN Revert("Signer already exists", st)
    ELSE Ok([st EXCEPT !.emergencySigners = @ \cup {signer}])

\* removeEmergencySigner(signer) onlyRole(DEFAULT_ADMIN_ROLE)
TL_removeEmergencySigner(st, sender, signer) ==
    IF ~hasRole(st, DEFAULT_ADMIN_ROLE, sender)
    THEN Revert("AccessControlUnauthorizedAccount", st)
    ELSE IF signer \notin st.emergencySigners THEN Revert("Signer does not exist", st)
    ELSE Ok([st EXCEPT !.emergencySigners = @ \ {signer}])

(***************************************************************************)
(* YRECTokenSimple: custodial-only token whose mint and burn are gated by  *)
(* the timelock address                                                    *)
(***************************************************************************)
UPGRADER_ROLE == "UPGRADER_ROLE"
SimpleRoles == {DEFAULT_ADMIN_ROLE, PAUSER_ROLE, UPGRADER_ROLE, WHITELIST_MANAGER_ROLE}
THIS == "this"                              \* address(this)
SimpleAccounts == Accounts \cup {"timelock"} \* msg.sender of a call, holders
SimpleAddr == SimpleAccounts \cup {ZERO}

\* initialize(initialOwner, _custodialSafe, _timelock)
Simple_initialize(initialOwner, custodialSafe, timelockAddress) ==
    [ balances      |-> [a \in SimpleAddr |-> 0],
      totalSupply   |-> 0,
      whitelist     |-> [a \in SimpleAddr |-> a \in {custodialSafe, initialOwner}],
      custodialSafe |-> custodialSafe,
      timelock      |-> timelockAddress,
      paused        |-> FALSE,
      roles         |-> [r \in SimpleRoles |-> {initialOwner}] ]

\* Variant: transfers between whitelisted accounts are let through.
Simple_update_AllowWhitelisted(st, from, to, value) ==
    IF from # ZERO /\ to # ZERO /\ (~st.whitelist[from] \/ ~st.whitelist[to])
    THEN Revert("TransferNotAllowed", st)
    ELSE IF from = ZERO /\ to # st.custodialSafe THEN Revert("OnlyCustodialSafe", st)
    ELSE IF to = ZERO /\ from # st.custodialSafe THEN Revert("OnlyCustodialSafe", st)
    ELSE ERC20_update(st, from, to, value)

\* YRECTokenSimple._update: only mint to and burn from the custodial safe
Simple_update(st, from, to, value) ==
    IF from # ZERO /\ to # ZERO THEN Revert("TransferNotAllowed", st)
    ELSE IF from = ZERO /\ to # st.custodialSafe THEN Revert("OnlyCustodialSafe", st)
    ELSE IF to = ZERO /\ from # st.custodialSafe THEN Revert("OnlyCustodialSafe", st)
    ELSE ERC20_update(st, from, to, value)

\* Variant: mint is gated by the admin role instead of the timelock address.
Simple_mint_RoleGated(st, sender, amount) ==
    IF ~st.whitelist[st.custodialSafe] THEN Revert("NotWhitelisted", st)
    ELSE IF ~hasRole(st, DEFAULT_ADMIN_ROLE, sender)
    THEN Revert("AccessControlUnauthorizedAccount", st)
    ELSE IF st.paused THEN Revert("EnforcedPause", st)
    ELSE IF st.custodialSafe = ZERO THEN Revert("ERC20InvalidReceiver", st)
    ELSE Simple_update(st, ZERO, st.custodialSafe, amount)

\* mint(amount) onlyWhitelisted(custodialSafe) onlyTimelock whenNotPaused
Simple_mint(st, sender, amount) ==
    IF ~st.whitelist[st.custodialSafe] THEN Revert("NotWhitelisted", st)
    ELSE IF sender # st.timelock THEN Revert("UnauthorizedMintBurn", st)
    ELSE IF st.paused THEN Revert("EnforcedPause", st)
    ELSE IF st.custodialSafe = ZERO THEN Revert("ERC20InvalidReceiver", st)
    ELSE Simple_update(st, ZERO, st.custodialSafe, amount)

\* burn(amount) onlyWhitelisted(custodialSafe) onlyTimelock whenNotPaused
Simple_burn(st, sender, amount) ==
    IF ~st.whitelist[st.custodialSafe] THEN Revert("NotWhitelisted", st)
    ELSE IF sender # st.timelock THEN Revert("UnauthorizedMintBurn", st)
    ELSE IF st.paused THEN Revert("EnforcedPause", st)
    ELSE IF st.custodialSafe = ZERO THEN Revert("ERC20InvalidSender", st)
    ELSE Simple_update(st, st.custodialSafe, ZERO, amount)

\* ERC20.transfer(to, value): _transfer(msg.sender, to, value)
Simple_transfer(st, sender, to, value) ==
    IF to = ZERO THEN Revert("ERC20InvalidReceiver", st)
    ELSE Simple_update(st, sender, to, value)

\* ERC20.transferFrom(from, to, value): _spendAllowance, then _transfer;
\* allowed tells whether the spender's allowance covers value
Simple_transferFrom(st, sender, from, to, value, allowed) ==
    IF ~allowed THEN Revert("ERC20InsufficientAllowance", st)
    ELSE IF from = ZERO THEN Revert("ERC20InvalidSender", st)
    ELSE IF to = ZERO THEN Revert("ERC20InvalidReceiver", st)
    ELSE Simple_update(st, from, to, value)

\* updateWhitelist(account, whitelisted) onlyRole(WHITELIST_MANAGER_ROLE)
Simple_updateWhitelist(st, sender, account, whitelisted) ==
    IF ~hasRole(st, WHITELIST_MANAGER_ROLE, sender)
    THEN Revert("AccessControlUnauthorizedAccount", st)
    ELSE IF account = ZERO THEN Revert("ZeroAddress", st)
    ELSE Ok([st EXCEPT !.whitelist[account] = whitelisted])

\* batchUpdateWhitelist(accounts, whitelisted) onlyRole(WHITELIST_MANAGER_ROLE);
\* the array is given by its length and the set of its elements
Simple_batchUpdateWhitelist(st, sender, length, elems, whitelisted) ==
    IF ~hasRole(st, WHITELIST_MANAGER_ROLE, sender)
    THEN Revert("AccessControlUnauthorizedAccount", st)
    ELSE IF length > MAX_BATCH_SIZE THEN Revert("BatchSizeExceeded", st)
    ELSE Ok([st EXCEPT !.whitelist =
                [a \in SimpleAddr |-> IF a \in elems /\ a # ZERO THEN whitelisted ELSE @[a]]])

\* updateCustodialSafe(newCustodialSafe) onlyTimelock
Simple_updateCustodialSafe(st, sender, newCustodialSafe) ==
    IF sender # st.timelock THEN Revert("UnauthorizedMintBurn", st)
    ELSE IF newCustodialSafe = ZERO THEN Revert("ZeroAddress", st)
    ELSE LET s1 == [st EXCEPT !.custodialSafe = newCustodialSafe]
             s2 == [s1 EXCEPT !.whitelist[newCustodialSafe] = TRUE]
         IN  Ok(s2)

\* updateTimelock(newTimelock) onlyTimelock
Simple_updateTimelock(st, sender, newTimelock) ==
    IF sender # st.timelock THEN Revert("UnauthorizedMintBurn", st)
    ELSE IF newTimelock = ZERO THEN Revert("ZeroAddress", st)
    ELSE IF newTimelock = THIS THEN Revert("TimelockUpdateNotAllowed", st)
    ELSE Ok([st EXCEPT !.timelock = newTimelock])

\* pause() onlyRole(PAUSER_ROLE)
Simple_pause(st, sender) ==
    IF ~hasRole(st, PAUSER_ROLE, sender) THEN Revert("AccessControlUnauthorizedAccount", st)
    ELSE IF st.paused THEN Revert("EnforcedPause", st)
    ELSE Ok([st EXCEPT !.paused = TRUE])

\* unpause() onlyRole(PAUSER_ROLE)
Simple_unpause(st, sender) ==
    IF ~hasRole(st, PAUSER_ROLE, sender) THEN Revert("AccessControlUnauthorizedAccount", st)
    ELSE IF ~st.paused THEN Revert("ExpectedPause", st)
    ELSE Ok([st EXCEPT !.paused = FALSE])

\* AccessControl.grantRole(role, account) onlyRole(getRoleAdmin(role))
Simple_grantRole(st, sender, role, account) ==
    IF ~hasRole(st, DEFAULT_ADMIN_ROLE, sender)
    THEN Revert("AccessControlUnauthorizedAccount", st)
    ELSE Ok([st EXCEPT !.roles[role] = @ \cup {account}])

\* AccessControl.revokeRole(role, account) onlyRole(getRoleAdmin(role))
Simple_revokeRole(st, sender, role, account) ==
    IF ~hasRole(st, DEFAULT_ADMIN_ROLE, sender)
    THEN Revert("AccessControlUnauthorizedAccount", st)
    ELSE Ok([st EXCEPT !.roles[role] = @ \ {account}])

(***************************************************************************)
(* Initial state: the contracts freshly deployed                           *)
(***************************************************************************)
Init ==
    /\ contract \in {"token", "wallet", "timelock", "simple"}
    /\ token = Flex_initialize("owner", "custodian")
    /\ \E threshold \in (IF contract = "wallet" THEN 1..Cardinality(Owners) ELSE {1}) :
           wallet = MS_constructor(Owners, threshold)
    /\ \E minDelay \in MinDelays :
           timelock = TL_constructor(minDelay, {"proposer"}, {"executor"}, "admin")
    /\ simple = Simple_initialize("owner", "custodian", "timelock")
    /\ now = DONE_TIMESTAMP + 1

(***************************************************************************)
(* Actions: one per external function                                      *)
(***************************************************************************)
\* a call to the token: r is the handler's result on the current storage
TokenCall(r) ==
    /\ contract = "token"
    /\ token' = Commit(token, r)
    /\ UNCHANGED <<contract, wallet, timelock, simple, now>>

\* a call to the wallet
WalletCall(r) ==
    /\ contract = "wallet"
    /\ wallet' = Commit(wallet, r)
    /\ UNCHANGED <<contract, token, timelock, simple, now>>

\* a call to the timelock
TimelockCall(r) ==
    /\ contract = "timelock"
    /\ timelock' = Commit(timelock, r)
    /\ UNCHANGED <<contract, token, wallet, simple, now>>

\* a call to YRECTokenSimple
SimpleCall(r) ==
    /\ contract = "simple"
    /\ simple' = Commit(simple, r)
    /\ UNCHANGED <<contract, token, wallet, timelock, now>>

Mint(sender, to, amount, ipValue) ==
    /\ token.totalSupply + amount <= MaxSupply
    /\ TokenCall(Flex_mint(token, sender, to, amount, ipValue))

Burn(sender, from, amount) ==
    TokenCall(Flex_burn(token, sender, from, amount))

Transfer(sender, to, value) ==
    TokenCall(Flex_transfer(token, sender, to, value))

UpdateWhitelist(sender, account, whitelisted) ==
    TokenCall(Flex_updateWhitelist(token, sender, account, whitelisted))

\* the batches explored: <<length of the array, set of its elements>>
Batches == { <<0, {}>>, <<1, {"user"}>>, <<2, {ZERO, "custodian"}>>,
             <<MAX_BATCH_SIZE, {"owner", "user"}>>, <<MAX_BATCH_SIZE + 1, {"user"}>> }

BatchUpdateWhitelist(sender, length, elems, whitelisted) ==
    /\ TokenCall(Flex_batchUpdateWhitelist(token, sender, length, elems, whitelisted))

SetTransfersEnabled(sender, enabled) ==
    TokenCall(Flex_setTransfersEnabled(token, sender, enabled))

UpdateTotalIPValue(sender, newTotalValue) ==
    TokenCall(Flex_updateTotalIPValue(token, sender, newTotalValue))

Pause(sender) == TokenCall(Flex_pause(token, sender))

Unpause(sender) == TokenCall(Flex_unpause(token, sender))

\* role administration is explored for these roles and this grantee
GrantRoles == {MINTER_ROLE}
Grantees == {"custodian"}

GrantRole(sender, role, account) ==
    TokenCall(Flex_grantRole(token, sender, role, account))

RevokeRole(sender, role, account) ==
    TokenCall(Flex_revokeRole(token, sender, role, account))

SubmitTransaction(sender, call, nonce, success) ==
    /\ wallet.transactionCount < MaxTx
    /\ WalletCall(MS_submitTransaction(NewCall(wallet), sender, call, nonce, success))

ConfirmTransaction(sender, transactionId, success) ==
    WalletCall(MS_confirmTransaction(NewCall(wallet), sender, transactionId, success))

RevokeConfirmation(sender, transactionId) ==
    WalletCall(MS_revokeConfirmation(NewCall(wallet), sender, transactionId))

\* every token call except updateTotalIPValue
LedgerNext ==
    \/ \E s \in Accounts, to \in Addr, amount \in Amounts, ipValue \in Amounts :
          Mint(s, to, amount, ipValue)
    \/ \E s \in Accounts, from \in Addr, amount \in Amounts : Burn(s, from, amount)
    \/ \E s \in Accounts, to \in Addr, value \in Amounts : Transfer(s, to, value)
    \/ \E s \in Accounts, a \in Addr, w \in BOOLEAN : UpdateWhitelist(s, a, w)
    \/ \E s \in Accounts, b \in Batches, w \in BOOLEAN :
          BatchUpdateWhitelist(s, b[1], b[2], w)
    \/ \E s \in Accounts, e \in BOOLEAN : SetTransfersEnabled(s, e)
    \/ \E s \in Accounts : Pause(s)
    \/ \E s \in Accounts : Unpause(s)
    \/ \E s \in Accounts, r \in GrantRoles, a \in Grantees : GrantRole(s, r, a)
    \/ \E s \in Accounts, r \in GrantRoles, a \in Grantees : RevokeRole(s, r, a)

Schedule(sender, op, delay) == TimelockCall(TL_schedule(timelock, now, sender, op, delay))

Cancel(sender, id) == TimelockCall(TL_cancel(timelock, now, sender, id))

Execute(sender, op, success) == TimelockCall(TL_execute(timelock, now, sender, op, success))

ScheduleEmergency(sender, op) == TimelockCall(TL_scheduleEmergency(timelock, now, sender, op))

ApproveEmergency(sender, id) == TimelockCall(TL_approveEmergency(timelock, now, sender, id))

ExecuteEmergency(sender, op, success) ==
    TimelockCall(TL_executeEmergency(timelock, now, sender, op, success))

AddEmergencySigner(sender, signer) ==
    TimelockCall(TL_addEmergencySigner(timelock, sender, signer))

RemoveEmergencySigner(sender, signer) ==
    TimelockCall(TL_removeEmergencySigner(timelock, sender, signer))

\* a day passes
Tick ==
    /\ contract = "timelock"
    /\ now < DONE_TIMESTAMP + 1 + MaxTime
    /\ now' = now + 1
    /\ UNCHANGED <<contract, token, wallet, timelock, simple>>

SimpleMint(sender, amount) ==
    /\ simple.totalSupply + amount <= MaxSupply
    /\ SimpleCall(Simple_mint(simple, sender, amount))

SimpleBurn(sender, amount) == SimpleCall(Simple_burn(simple, sender, amount))

SimpleTransfer(sender, to, value) == SimpleCall(Simple_transfer(simple, sender, to, value))

SimpleTransferFrom(sender, from, to, value, allowed) ==
    SimpleCall(Simple_transferFrom(simple, sender, from, to, value, allowed))

SimpleUpdateWhitelist(sender, account, whitelisted) ==
    SimpleCall(Simple_updateWhitelist(simple, sender, account, whitelisted))

SimpleBatchUpdateWhitelist(sender, length, elems, whitelisted) ==
    SimpleCall(Simple_batchUpdateWhitelist(simple, sender, length, elems, whitelisted))

\* the addresses given to updateCustodialSafe and to updateTimelock
NewSafes == {ZERO, "custodian", "user"}
NewTimelocks == {ZERO, THIS, "timelock", "owner"}

UpdateCustodialSafe(sender, newCustodialSafe) ==
    SimpleCall(Simple_updateCustodialSafe(simple, sender, newCustodialSafe))

UpdateTimelock(sender, newTimelock) ==
    SimpleCall(Simple_updateTimelock(simple, sender, newTimelock))

SimplePause(sender) == SimpleCall(Simple_pause(simple, sender))

SimpleUnpause(sender) == SimpleCall(Simple_unpause(simple, sender))

\* role administration of YRECTokenSimple is explored for this role and grantee
SimpleGrantRoles == {DEFAULT_ADMIN_ROLE}
SimpleGrantees == {"user"}

SimpleGrantRole(sender, role, account) ==
    SimpleCall(Simple_grantRole(simple, sender, role, account))

SimpleRevokeRole(sender, role, account) ==
    SimpleCall(Simple_revokeRole(simple, sender, role, account))

TokenNext ==
    \/ LedgerNext
    \/ \E s \in Accounts, v \in Amounts : UpdateTotalIPValue(s, v)

WalletNext ==
    \/ \E s \in Senders, c \in Calls, n \in Nonces, ok \in BOOLEAN :
          SubmitTransaction(s, c, n, ok)
    \/ \E s \in Senders, id \in TxIds, ok \in BOOLEAN : ConfirmTransaction(s, id, ok)
    \/ \E s \in Senders, id \in TxIds : RevokeConfirmation(s, id)

\* every timelock call except the plain schedule, so that every operation is
\* scheduled through scheduleEmergency
EmergencyNext ==
    \/ \E s \in TLSenders, id \in OperationIds : Cancel(s, id)
    \/ \E s \in TLSenders, op \in Operations, ok \in BOOLEAN : Execute(s, op, ok)
    \/ \E s \in TLSenders, op \in Operations : ScheduleEmergency(s, op)
    \/ \E s \in TLSenders, id \in Approvable : ApproveEmergency(s, id)
    \/ \E s \in TLSenders, op \in Operations, ok \in BOOLEAN : ExecuteEmergency(s, op, ok)
    \/ \E s \in TLSenders, x \in Signers \cup {ZERO} : AddEmergencySigner(s, x)
    \/ \E s \in TLSenders, x \in Signers : RemoveEmergencySigner(s, x)
    \/ Tick

TimelockNext ==
    \/ \E s \in TLSenders, op \in Operations, d \in Delays : Schedule(s, op, d)
    \/ EmergencyNext

SimpleNext ==
    \/ \E s \in SimpleAccounts, a \in Amounts : SimpleMint(s, a)
    \/ \E s \in SimpleAccounts, a \in Amounts : SimpleBurn(s, a)
    \/ \E s \in SimpleAccounts, to \in SimpleAddr, v \in Amounts : SimpleTransfer(s, to, v)
    \/ \E s \in SimpleAccounts, from \in {ZERO, "custodian"}, to \in NewSafes, v \in Amounts,
          allowed \in BOOLEAN : SimpleTransferFrom(s, from, to, v, allowed)
    \/ \E s \in SimpleAccounts, a \in {ZERO, "custodian", "user"}, w \in BOOLEAN :
          SimpleUpdateWhitelist(s, a, w)
    \/ \E s \in SimpleAccounts, b \in Batches, w \in BOOLEAN :
          SimpleBatchUpdateWhitelist(s, b[1], b[2], w)
    \/ \E s \in SimpleAccounts, x \in NewSafes : UpdateCustodialSafe(s, x)
    \/ \E s \in SimpleAccounts, x \in NewTimelocks : UpdateTimelock(s, x)
    \/ \E s \in SimpleAccounts : SimplePause(s)
    \/ \E s \in SimpleAccounts : SimpleUnpause(s)
    \/ \E s \in SimpleAccounts, r \in SimpleGrantRoles, a \in SimpleGrantees :
          SimpleGrantRole(s, r, a)
    \/ \E s \in SimpleAccounts, r \in SimpleGrantRoles, a \in SimpleGrantees :
          SimpleRevokeRole(s, r, a)

Next == TokenNext \/ WalletNext \/ TimelockNext \/ SimpleNext

InitToken == Init /\ contract = "token"
InitWallet == Init /\ contract = "wallet"
InitTimelock == Init /\ contract = "timelock"
InitSimple == Init /\ contract = "simple"

\* every call to either contract
Spec == Init /\ [][Next]_vars
\* calls to YRECTokenFlexible
SpecToken == InitToken /\ [][TokenNext]_vars
\* calls to YRECTokenFlexible other than updateTotalIPValue
SpecLedger == InitToken /\ [][LedgerNext]_vars
\* calls to SimpleMultisig
SpecWallet == InitWallet /\ [][WalletNext]_vars
\* calls to YRECTimelock and the passing of time
SpecTimelock == InitTimelock /\ [][TimelockNext]_vars
\* calls to YRECTimelock in which operations are scheduled by scheduleEmergency only
SpecEmergency == InitTimelock /\ [][EmergencyNext]_vars
\* calls to YRECTokenSimple
SpecSimple == InitSimple /\ [][SimpleNext]_vars

(***************************************************************************)
(* Properties                                                              *)
(***************************************************************************)
ExistingTxIds == 0..(wallet.transactionCount - 1)
ComplianceErrors == {"TransfersDisabled", "TransferNotAllowed"}

\* C1: over every sequence of mint and burn calls (any caller, any amount,
\* accepted or rejected; whitelist, pause, transfer and role calls may be
\* interleaved, updateTotalIPValue is not called), totalSupply() equals
\* getTotalIPValue() after every call.
C1_SupplyEqualsBacking == token.totalSupply = token.totalIPValue

\* C1 witness: tokens have been minted and a partial burn from a holder is accepted.
C1_Witness ==
    /\ token.totalSupply = MaxSupply
    /\ token.balances["custodian"] >= 2
    /\ Flex_burn(token, "owner", "custodian", 1).err = OK

\* C2 (as claimed): the total backing value equals totalSupply in every reachable
\* state of YRECTokenFlexible, updateTotalIPValue included.
C2_BackingEnforcedInEveryState ==
    contract = "token" => token.totalIPValue = token.totalSupply

\* C3: a transfer between two accounts succeeds only if transfersEnabled is set
\* and both sender and recipient are whitelisted; otherwise it is rejected with a
\* compliance error and the storage is unchanged.  A transfer of a nonzero amount
\* to any non-whitelisted address (address(0) included) is rejected.
C3_TransferNeedsCompliance ==
    \A sender \in Accounts, to \in Addr, value \in Amounts :
        LET r == Flex_transfer(token, sender, to, value)
            allowed == token.transfersEnabled /\ token.whitelist[sender] /\ token.whitelist[to]
        IN  /\ (r.err = OK) => allowed
            /\ (to \in Accounts /\ ~allowed) =>
                   /\ r.err \in ComplianceErrors
                   /\ Commit(token, r) = token
            /\ (~token.whitelist[to] /\ value > 0) => r.err # OK

\* C3 witness: transfers are enabled, the sender holds tokens, the recipient is
\* not whitelisted, and the transfer is rejected with TransferNotAllowed.
C3_Witness ==
    /\ token.transfersEnabled /\ ~token.paused
    /\ token.whitelist["owner"] /\ ~token.whitelist["user"]
    /\ token.balances["owner"] >= 1
    /\ Flex_transfer(token, "owner", "user", 1).err = "TransferNotAllowed"

\* C4: an executed transaction stays executed: its executed flag, its entry,
\* its confirmations and its txHash in the replay set are never changed again,
\* and every later confirmTransaction or revokeConfirmation on it is rejected
\* (with "Transaction already executed" for an owner) and changes nothing.
C4_ExecutedIsFinalState ==
    \A id \in ExistingTxIds :
        Tx(wallet, id).executed =>
            /\ Tx(wallet, id).txHash \in wallet.executedTransactionHashes
            /\ \A sender \in Senders, ok \in BOOLEAN :
                   LET c == MS_confirmTransaction(wallet, sender, id, ok)
                       v == MS_revokeConfirmation(wallet, sender, id)
                   IN  /\ c.err # OK /\ Commit(wallet, c) = wallet
                       /\ v.err # OK /\ Commit(wallet, v) = wallet
                       /\ sender \in Owners =>
                              /\ c.err = "Transaction already executed"
                              /\ v.err = "Transaction already executed"

C4_ExecutedIsFinalStep ==
    \A id \in ExistingTxIds :
        Tx(wallet, id).executed =>
            /\ Tx(wallet', id) = Tx(wallet, id)
            /\ Confs(wallet', id) = Confs(wallet, id)
            /\ Tx(wallet, id).txHash \in wallet'.executedTransactionHashes

C4_ExecutedAtMostOnce == [] C4_ExecutedIsFinalState /\ [][C4_ExecutedIsFinalStep]_vars

\* C4 witness: a 2-of-3 wallet whose transaction 0 is executed with two
\* confirmations; the third owner's late confirmation is rejected.
C4_Witness ==
    /\ wallet.threshold = 2 /\ wallet.transactionCount >= 1
    /\ Tx(wallet, 0).executed
    /\ Confs(wallet, 0) = {"o1", "o2"}
    /\ MS_confirmTransaction(wallet, "o3", 0, TRUE).err = "Transaction already executed"

\* C5: a successful submitTransaction creates the transaction with exactly one
\* confirmation, the submitter's; when a submitTransaction or confirmTransaction
\* call returns successfully the transaction is executed if and only if its
\* confirmation count has reached the threshold, so no transaction is ever left
\* at or above the threshold waiting for a separate execute step.
C5_ExecutesInTheSameCall ==
    /\ \A sender \in Senders, call \in Calls, nonce \in Nonces, ok \in BOOLEAN :
           LET r == MS_submitTransaction(wallet, sender, call, nonce, ok)
               id == wallet.transactionCount
           IN  (r.err = OK) =>
                   /\ r.st.transactionCount = id + 1
                   /\ Confs(r.st, id) = {sender}
                   /\ Tx(r.st, id).confirmationCount = 1
                   /\ Tx(r.st, id).executed <=> (1 >= r.st.threshold)
    /\ \A sender \in Senders, id \in TxIds, ok \in BOOLEAN :
           LET r == MS_confirmTransaction(wallet, sender, id, ok)
           IN  (r.err = OK) =>
                   (Tx(r.st, id).executed <=>
                        (Tx(r.st, id).confirmationCount >= r.st.threshold))
    /\ \A id \in ExistingTxIds :
           (Tx(wallet, id).confirmationCount >= wallet.threshold) => Tx(wallet, id).executed

\* C5 witness: a transaction that was executed by the confirmation that reached a
\* threshold of 2, next to one with a single confirmation that is still pending.
C5_Witness ==
    /\ wallet.threshold = 2 /\ wallet.transactionCount = 2
    /\ Tx(wallet, 0).executed /\ Tx(wallet, 0).confirmationCount = 2
    /\ ~Tx(wallet, 1).executed /\ Confs(wallet, 1) = {"o3"}

\* C6: submitTransaction succeeds only with the wallet's current nonce, and a
\* success advances the nonce by exactly one; an owner's submission with a lower
\* or higher nonce is rejected with InvalidNonce and changes nothing.  No two
\* transactions carry the same nonce, every accepted nonce is below the current
\* one, and resubmitting an accepted (to, value, data, nonce) is rejected.
C6_StrictNonce ==
    /\ \A sender \in Senders, call \in Calls, nonce \in Nonces, ok \in BOOLEAN :
           LET r == MS_submitTransaction(wallet, sender, call, nonce, ok)
           IN  /\ (r.err = OK) => (nonce = wallet.nonce /\ r.st.nonce = wallet.nonce + 1)
               /\ (sender \in Owners /\ nonce # wallet.nonce) =>
                      (r.err = "InvalidNonce" /\ Commit(wallet, r) = wallet)
    /\ \A i \in ExistingTxIds, j \in ExistingTxIds :
           (i # j) => Tx(wallet, i).nonce # Tx(wallet, j).nonce
    /\ \A i \in ExistingTxIds, sender \in Senders, ok \in BOOLEAN :
           LET t == Tx(wallet, i)
               again == [to |-> t.to, value |-> t.value, data |-> t.data]
           IN  /\ t.nonce < wallet.nonce
               /\ MS_submitTransaction(wallet, sender, again, t.nonce, ok).err # OK

\* C6 witness: nonce 0 was consumed by an accepted submission and an owner's
\* resubmission of the identical tuple with nonce 0 is rejected with InvalidNonce.
C6_Witness ==
    /\ wallet.nonce = 1 /\ wallet.transactionCount = 1
    /\ Tx(wallet, 0).nonce = 0
    /\ MS_submitTransaction(wallet, "o2",
           [to |-> Tx(wallet, 0).to, value |-> Tx(wallet, 0).value,
            data |-> Tx(wallet, 0).data], 0, TRUE).err = "InvalidNonce"

\* the confirmation by sender would bring transaction id to the threshold
ReachesThreshold(sender, id) ==
    /\ sender \in Owners
    /\ id \in ExistingTxIds
    /\ ~Tx(wallet, id).executed
    /\ sender \notin Confs(wallet, id)
    /\ Tx(wallet, id).confirmationCount + 1 >= wallet.threshold

\* C7: when the target call fails during execution, the triggering call fails
\* as a whole and nothing it did persists: the transaction stays unexecuted, its
\* txHash stays out of the replay set, the confirmation is not recorded, and a
\* failed submitTransaction of a threshold-1 wallet advances neither the nonce
\* nor the transaction count.  The same confirmation can be sent again and
\* executes the transaction when the target call succeeds.
C7_FailedExecutionRollsBack ==
    /\ \A id \in ExistingTxIds :
           ~Tx(wallet, id).executed =>
               Tx(wallet, id).txHash \notin wallet.executedTransactionHashes
    /\ \A sender \in Senders, id \in TxIds :
           ReachesThreshold(sender, id) =>
               LET r == MS_confirmTransaction(wallet, sender, id, FALSE)
                   after == Commit(wallet, r)
                   retry == MS_confirmTransaction(after, sender, id, TRUE)
               IN  /\ r.err = "Transaction execution failed"
                   /\ after = wallet
                   /\ retry.err = OK
                   /\ Tx(retry.st, id).executed
    /\ \A sender \in Owners, call \in Calls :
           (wallet.threshold = 1) =>
               LET r == MS_submitTransaction(wallet, sender, call, wallet.nonce, FALSE)
                   after == Commit(wallet, r)
               IN  /\ r.err = "Transaction execution failed"
                   /\ after.nonce = wallet.nonce
                   /\ after.transactionCount = wallet.transactionCount
                   /\ after = wallet

\* C7 witness: a 2-of-3 wallet with a pending transaction holding o1's
\* confirmation; o2's confirmation reaches the threshold, the target call fails
\* and the call is rejected after having written the executed flag.
C7_Witness ==
    /\ wallet.threshold = 2 /\ wallet.transactionCount >= 1
    /\ ~Tx(wallet, 0).executed /\ Confs(wallet, 0) = {"o1"}
    /\ LET r == MS_confirmTransaction(wallet, "o2", 0, FALSE)
       IN  r.err = "Transaction execution failed" /\ Tx(r.st, 0).executed

\* the storage after a call with result r is the storage before it, if r is a failure
Untouched(before, r) == (r.err # OK) => Commit(before, r) = before

C9_PausedState ==
    token.paused =>
        /\ \A s \in Accounts, to \in Addr, a \in Amounts, v \in Amounts :
               Flex_mint(token, s, to, a, v).err # OK
        /\ \A s \in Accounts, from \in Addr, a \in Amounts :
               Flex_burn(token, s, from, a).err # OK
        /\ \A s \in Accounts, to \in Addr, a \in Amounts :
               Flex_transfer(token, s, to, a).err # OK
        /\ \A s \in Accounts, v \in Amounts :
               Flex_updateTotalIPValue(token, s, v).err # OK
        /\ \A s \in Accounts, a \in Accounts, w \in BOOLEAN :
               hasRole(token, WHITELIST_MANAGER_ROLE, s) =>
                   LET r == Flex_updateWhitelist(token, s, a, w)
                   IN  r.err = OK /\ r.st.whitelist[a] = w
        /\ \A s \in Accounts, b \in Batches, w \in BOOLEAN :
               (hasRole(token, WHITELIST_MANAGER_ROLE, s) /\ b[1] <= MAX_BATCH_SIZE) =>
                   LET r == Flex_batchUpdateWhitelist(token, s, b[1], b[2], w)
                   IN  r.err = OK /\ \A a \in b[2] \ {ZERO} : r.st.whitelist[a] = w
        /\ \A s \in Accounts, e \in BOOLEAN :
               hasRole(token, COMPLIANCE_OFFICER_ROLE, s) =>
                   LET r == Flex_setTransfersEnabled(token, s, e)
                   IN  r.err = OK /\ r.st.transfersEnabled = e
        /\ \A s \in Accounts, role \in Roles, a \in Accounts :
               hasRole(token, DEFAULT_ADMIN_ROLE, s) =>
                   /\ LET r == Flex_grantRole(token, s, role, a)
                      IN  r.err = OK /\ hasRole(r.st, role, a)
                   /\ LET r == Flex_revokeRole(token, s, role, a)
                      IN  r.err = OK /\ ~hasRole(r.st, role, a)

C9_PausedStep ==
    token.paused =>
        /\ token'.balances = token.balances
        /\ token'.ipValuePerHolder = token.ipValuePerHolder
        /\ token'.totalSupply = token.totalSupply
        /\ token'.totalIPValue = token.totalIPValue

C9_PauseFreezesLedger == [] C9_PausedState /\ [][C9_PausedStep]_vars

\* C9 witness: the token is paused with tokens outstanding, "user" was
\* whitelisted, mint is rejected with EnforcedPause and updateWhitelist succeeds.
C9_Witness ==
    /\ token.paused /\ token.totalSupply >= 1
    /\ token.totalSupply = token.totalIPValue
    /\ token.whitelist["user"]
    /\ Flex_mint(token, "owner", "owner", 1, 1).err = "EnforcedPause"
    /\ Flex_updateWhitelist(token, "owner", "user", FALSE).err = OK

\* C10 (as claimed): mint(to, amount, ipValue) by a minter for a whitelisted
\* `to` while not paused succeeds exactly when ipValue > 0 and amount = ipValue;
\* ipValue = 0 is rejected with InvalidIPValue and amount # ipValue with
\* BackingMismatch; on success the balance and backing of `to`, totalSupply and
\* the total backing value grow by amount and no other account changes.
C10_MintSucceedsIffOneToOne ==
    \A s \in Accounts, to \in Addr, amount \in Amounts, ipValue \in Amounts :
        (hasRole(token, MINTER_ROLE, s) /\ token.whitelist[to] /\ ~token.paused) =>
            LET r == Flex_mint(token, s, to, amount, ipValue)
            IN  /\ (r.err = OK) <=> (ipValue > 0 /\ amount = ipValue)
                /\ (ipValue = 0) => r.err = "InvalidIPValue"
                /\ (ipValue > 0 /\ amount # ipValue) => r.err = "BackingMismatch"
                /\ (r.err = OK) =>
                       /\ r.st.balances = [token.balances EXCEPT ![to] = @ + amount]
                       /\ r.st.ipValuePerHolder =
                              [token.ipValuePerHolder EXCEPT ![to] = @ + amount]
                       /\ r.st.totalSupply = token.totalSupply + amount
                       /\ r.st.totalIPValue = token.totalIPValue + amount

\* C11: a successful burn of an account's entire balance leaves that account's
\* balance and backing value both 0 and lowers the total backing value by
\* exactly the backing value the account held; when no other account holds
\* tokens, totalSupply and the total backing value are both 0 afterwards. Such
\* a burn by a burner succeeds whenever the token is unpaused and the totals
\* agree.
C11_FullBurnLeavesNoDust ==
    \A s \in Accounts, from \in Accounts :
        LET r == Flex_burn(token, s, from, token.balances[from])
        IN  /\ (r.err = OK) =>
                  /\ r.st.balances[from] = 0
                  /\ r.st.ipValuePerHolder[from] = 0
                  /\ r.st.totalIPValue = token.totalIPValue - token.ipValuePerHolder[from]
                  /\ r.st.totalSupply = token.totalSupply - token.balances[from]
                  /\ (\A a \in Accounts \ {from} : token.balances[a] = 0) =>
                         (r.st.totalSupply = 0 /\ r.st.totalIPValue = 0)
            /\ (hasRole(token, BURNER_ROLE, s) /\ ~token.paused
                   /\ token.totalSupply = token.totalIPValue) => r.err = OK

\* C11 witness: a sole holder of more than one token whose full burn succeeds.
C11_Witness ==
    /\ token.balances["custodian"] > 1
    /\ token.totalSupply = token.balances["custodian"]
    /\ Flex_burn(token, "owner", "custodian", token.balances["custodian"]).err = OK

\* C12: a successful transfer of v from A to B only reallocates: totalSupply,
\* the total backing value and the balance and backing value of every third
\* account are unchanged, v leaves A's balance and reaches B's, and the backing
\* value removed from A is the backing value added to B.
C12_TransferOnlyReallocates ==
    \A A \in Accounts, B \in Accounts, v \in Amounts :
        LET r == Flex_transfer(token, A, B, v)
        IN  (r.err = OK) =>
              /\ r.st.totalSupply = token.totalSupply
              /\ r.st.totalIPValue = token.totalIPValue
              /\ \A c \in Accounts \ {A, B} :
                     /\ r.st.balances[c] = token.balances[c]
                     /\ r.st.ipValuePerHolder[c] = token.ipValuePerHolder[c]
              /\ token.ipValuePerHolder[A] =
                     r.st.ipValuePerHolder[A] + r.st.ipValuePerHolder[B]
                         - token.ipValuePerHolder[B]
              /\ token.balances[A] =
                     r.st.balances[A] + r.st.balances[B] - token.balances[B]
              /\ (A # B) => r.st.balances[B] = token.balances[B] + v

\* C12 witness: a holder can move part of its balance to another account.
C12_Witness ==
    /\ token.balances["custodian"] > 1
    /\ token.balances["user"] > 0
    /\ Flex_transfer(token, "custodian", "user", 1).err = OK

\* C13: a burn of a positive amount succeeds only if its source is whitelisted
\* at the time of the call.
C13_BurnNeedsWhitelistedSource ==
    \A s \in Accounts, from \in Accounts, a \in Amounts \ {0} :
        (Flex_burn(token, s, from, a).err = OK) => token.whitelist[from]

\* C14: every account with a nonzero balance is whitelisted.
C14_HoldersAreWhitelisted ==
    \A a \in Accounts : (token.balances[a] > 0) => token.whitelist[a]

\* C15: for every multisig transaction confirmationCount equals the number of
\* owners whose confirmation flag is set, so it never exceeds the number of
\* owners; a confirm by an owner whose flag is already set fails; a revoke
\* fails unless the caller's flag is set, and a successful revoke clears that
\* flag and lowers the count by exactly one.
C15_ConfirmationsCountedOnce ==
    \A id \in ExistingTxIds :
        /\ Tx(wallet, id).confirmationCount = Cardinality(Confs(wallet, id) \cap wallet.owners)
        /\ Confs(wallet, id) \subseteq wallet.owners
        /\ Tx(wallet, id).confirmationCount <= Cardinality(wallet.owners)
        /\ \A s \in Senders :
              /\ (s \in Confs(wallet, id)) =>
                     \A ok \in BOOLEAN : MS_confirmTransaction(wallet, s, id, ok).err # OK
              /\ LET r == MS_revokeConfirmation(wallet, s, id)
                 IN  /\ (s \notin Confs(wallet, id)) => r.err # OK
                     /\ (r.err = OK) =>
                            /\ Confs(r.st, id) = Confs(wallet, id) \ {s}
                            /\ Tx(r.st, id).confirmationCount =
                                   Tx(wallet, id).confirmationCount - 1

\* C15 witness: a pending transaction with two confirmations, one of which its
\* owner can revoke.
C15_Witness ==
    \E id \in ExistingTxIds :
        /\ ~Tx(wallet, id).executed
        /\ Tx(wallet, id).confirmationCount = 2
        /\ \E s \in Confs(wallet, id) : MS_revokeConfirmation(wallet, s, id).err = OK

\* the timestamp stored for an operation in the current state
Stamp(id) == getTimestamp(timelock, id)

\* C16: execute and executeEmergency succeed only for a scheduled operation at
\* a time now >= readyTimestamp; before that time they fail (an executor gets
\* the not-ready error) and the operation stays scheduled with its timestamp.
\* A newly scheduled operation gets a readyTimestamp of at least
\* now + minDelay, and an operation becomes executed only at now >= readyTimestamp.
C16_ReadyState ==
    \A s \in TLSenders, op \in Operations, ok \in BOOLEAN :
        LET id == hashOperation(op)
            e  == TL_execute(timelock, now, s, op, ok)
            ee == TL_executeEmergency(timelock, now, s, op, ok)
        IN  /\ (e.err = OK \/ ee.err = OK) => (Stamp(id) > DONE_TIMESTAMP /\ now >= Stamp(id))
            /\ (Stamp(id) > DONE_TIMESTAMP /\ now < Stamp(id)) =>
                  /\ e.err # OK /\ ee.err # OK
                  /\ Commit(timelock, e) = timelock /\ Commit(timelock, ee) = timelock
                  /\ hasRole(timelock, EXECUTOR_ROLE, s) =>
                         /\ e.err = "TimelockUnexpectedOperationState"
                         /\ ee.err = "Operation not ready"

C16_ReadyStep ==
    \A id \in OperationIds :
        /\ (Stamp(id) = 0 /\ getTimestamp(timelock', id) # 0) =>
               getTimestamp(timelock', id) >= now + timelock.minDelay
        /\ (Stamp(id) # DONE_TIMESTAMP /\ getTimestamp(timelock', id) = DONE_TIMESTAMP) =>
               (Stamp(id) > DONE_TIMESTAMP /\ now >= Stamp(id))

C16_ExecuteOnlyWhenReady == [] C16_ReadyState /\ [][C16_ReadyStep]_vars

\* C16 witness: one operation has been executed and another is scheduled with
\* its readyTimestamp still ahead, so that the executor's call is rejected.
C16_Witness ==
    /\ isOperationDone(timelock, hashOperation(OpA))
    /\ Stamp(hashOperation(OpB)) > now
    /\ TL_execute(timelock, now, "executor", OpB, TRUE).err = "TimelockUnexpectedOperationState"

\* C17: an operation that names a predecessor is executed (by execute or
\* executeEmergency) only when the predecessor is executed; while the
\* predecessor is unset, scheduled or cancelled, the executor's execute of a
\* ready operation fails with the predecessor error. An operation without
\* predecessor that is ready is executed by the executor whenever its target
\* call succeeds.
C17_PredecessorFirst ==
    \A s \in TLSenders, op \in Operations, ok \in BOOLEAN :
        LET id == hashOperation(op)
            e  == TL_execute(timelock, now, s, op, ok)
            ee == TL_executeEmergency(timelock, now, s, op, ok)
        IN  IF op.predecessor # NoPredecessor
            THEN /\ (e.err = OK \/ ee.err = OK) => isOperationDone(timelock, op.predecessor)
                 /\ (~isOperationDone(timelock, op.predecessor)
                        /\ isOperationReady(timelock, now, id)
                        /\ hasRole(timelock, EXECUTOR_ROLE, s)) =>
                       /\ e.err = "TimelockUnexecutedPredecessor"
                       /\ ee.err \in {"TimelockUnexecutedPredecessor",
                                      "Insufficient emergency approvals"}
            ELSE (isOperationReady(timelock, now, id) /\ hasRole(timelock, EXECUTOR_ROLE, s)
                    /\ ok) => e.err = OK

\* C17 witness: the dependent operation is ready while its predecessor is only
\* scheduled, and the executor's call is rejected for that reason.
C17_Witness ==
    /\ isOperationReady(timelock, now, hashOperation(OpB))
    /\ isOperationPending(timelock, now, hashOperation(OpA))
    /\ TL_execute(timelock, now, "executor", OpB, TRUE).err = "TimelockUnexecutedPredecessor"

\* C18: when the call to the target fails, execute and executeEmergency fail
\* as a whole and leave the operation scheduled, so that the same call with a
\* succeeding target is accepted; an executed operation is never executed
\* again: every execute, executeEmergency and schedule of it fails and its
\* entry stays executed.
C18_FailedCallState ==
    \A s \in TLSenders, op \in Operations :
        LET id == hashOperation(op)
            e  == TL_execute(timelock, now, s, op, FALSE)
            ee == TL_executeEmergency(timelock, now, s, op, FALSE)
        IN  /\ e.err # OK /\ ee.err # OK
            /\ Commit(timelock, e) = timelock /\ Commit(timelock, ee) = timelock
            /\ (e.err = "FailedCall") =>
                  /\ isOperationPending(timelock, now, id)
                  /\ TL_execute(timelock, now, s, op, TRUE).err = OK
                  /\ isOperationDone(TL_execute(timelock, now, s, op, TRUE).st, id)
            /\ (ee.err = "FailedCall") =>
                  TL_executeEmergency(timelock, now, s, op, TRUE).err = OK
            /\ isOperationDone(timelock, id) =>
                  /\ \A ok \in BOOLEAN :
                        /\ TL_execute(timelock, now, s, op, ok).err # OK
                        /\ TL_executeEmergency(timelock, now, s, op, ok).err # OK
                  /\ \A d \in Delays : TL_schedule(timelock, now, s, op, d).err # OK
                  /\ TL_scheduleEmergency(timelock, now, s, op).err # OK
                  /\ TL_cancel(timelock, now, s, id).err # OK

C18_ExecutedStep ==
    \A id \in OperationIds :
        isOperationDone(timelock, id) => isOperationDone(timelock', id)

C18_FailedExecuteIsRetryable == [] C18_FailedCallState /\ [][C18_ExecutedStep]_vars

\* C18 witness: one operation is executed, and the executor's call for another
\* ready operation fails because of its target.
C18_Witness ==
    /\ isOperationDone(timelock, hashOperation(OpA))
    /\ TL_execute(timelock, now, "executor", OpB, FALSE).err = "FailedCall"

\* C19: cancel succeeds only for a caller holding the canceller role and only
\* for an operation that is scheduled (not unset, not executed, not cancelled
\* before); in the state after a successful cancel every execute and
\* executeEmergency of the operation fails, at the current time and at every
\* later time up to and past its former readyTimestamp; an operation without
\* an entry never becomes executed in one step.
C19_CancelState ==
    \A s \in TLSenders, op \in Operations :
        LET id == hashOperation(op)
            c  == TL_cancel(timelock, now, s, id)
            last == IF Stamp(id) > now THEN Stamp(id) + 1 ELSE now + 1
        IN  (c.err = OK) =>
              /\ hasRole(timelock, CANCELLER_ROLE, s)
              /\ isOperationPending(timelock, now, id)
              /\ getTimestamp(c.st, id) = 0
              /\ TL_cancel(c.st, now, s, id).err # OK
              /\ \A x \in TLSenders, t \in now..last, ok \in BOOLEAN :
                     /\ TL_execute(c.st, t, x, op, ok).err # OK
                     /\ TL_executeEmergency(c.st, t, x, op, ok).err # OK

C19_CancelStep ==
    \A id \in OperationIds :
        (Stamp(id) = 0) => ~isOperationDone(timelock', id)

C20_DuplicateState ==
    \A s \in TLSenders, op \in Operations :
        (Stamp(hashOperation(op)) # 0) =>
            /\ \A d \in Delays :
                  LET r == TL_schedule(timelock, now, s, op, d)
                  IN  r.err # OK /\ Commit(timelock, r) = timelock
            /\ LET r == TL_scheduleEmergency(timelock, now, s, op)
               IN  r.err # OK /\ Commit(timelock, r) = timelock

C20_DuplicateStep ==
    \A id \in OperationIds :
        (Stamp(id) > DONE_TIMESTAMP) =>
            getTimestamp(timelock', id) \in {Stamp(id), 0, DONE_TIMESTAMP}

C20_DuplicateScheduleCollides == [] C20_DuplicateState /\ [][C20_DuplicateStep]_vars

\* C20 witness: one operation is executed and another is scheduled; the
\* proposer schedules the scheduled one again at a time that would give it a
\* later readyTimestamp.
C20_Witness ==
    /\ isOperationDone(timelock, hashOperation(OpA))
    /\ isOperationPending(timelock, now, hashOperation(OpB))
    /\ now + EMERGENCY_DELAY > Stamp(hashOperation(OpB))
    /\ TL_schedule(timelock, now, "proposer", OpB, EMERGENCY_DELAY).err =
           "TimelockUnexpectedOperationState"

\* C21: in YRECTokenSimple mint(amount) and burn(amount) succeed only when the
\* caller is the configured timelock address; a call by any other account,
\* whatever roles it holds, is rejected and changes nothing.
C21_MintBurnOnlyByTimelock ==
    \A s \in SimpleAccounts, a \in Amounts :
        LET m == Simple_mint(simple, s, a)
            b == Simple_burn(simple, s, a)
        IN  /\ (m.err = OK \/ b.err = OK) => s = simple.timelock
            /\ (s # simple.timelock) =>
                  /\ m.err # OK /\ b.err # OK
                  /\ Commit(simple, m) = simple /\ Commit(simple, b) = simple

\* C21 witness: tokens have been minted through the timelock, and the owner,
\* who holds every role, is turned away from mint and burn.
C21_Witness ==
    /\ simple.balances[simple.custodialSafe] > 0
    /\ simple.timelock = "timelock"
    /\ \A r \in SimpleRoles : hasRole(simple, r, "owner")
    /\ Simple_mint(simple, "owner", 1).err = "UnauthorizedMintBurn"
    /\ Simple_burn(simple, "owner", 1).err = "UnauthorizedMintBurn"
    /\ Simple_burn(simple, "timelock", 1).err = OK

\* C22: in YRECTokenSimple every transfer and transferFrom between two
\* accounts is rejected, whatever the amount, the whitelist and the caller; a
\* successful mint credits the current custodial safe and nothing else, a
\* successful burn debits the current custodial safe and nothing else, and
\* both need the custodial safe to be whitelisted.
C22_CustodialOnly ==
    /\ \A s \in SimpleAccounts, to \in SimpleAddr, v \in Amounts :
           Simple_transfer(simple, s, to, v).err # OK
    /\ \A s \in SimpleAccounts, from \in SimpleAddr, to \in SimpleAddr, v \in Amounts,
          allowed \in BOOLEAN :
           Simple_transferFrom(simple, s, from, to, v, allowed).err # OK
    /\ \A s \in SimpleAccounts, a \in Amounts :
           LET m == Simple_mint(simple, s, a)
               b == Simple_burn(simple, s, a)
               safe == simple.custodialSafe
           IN  /\ (m.err = OK) =>
                     /\ simple.whitelist[safe]
                     /\ m.st.balances = [simple.balances EXCEPT ![safe] = @ + a]
                     /\ m.st.totalSupply = simple.totalSupply + a
               /\ (b.err = OK) =>
                     /\ simple.whitelist[safe]
                     /\ b.st.balances = [simple.balances EXCEPT ![safe] = @ - a]
                     /\ b.st.totalSupply = simple.totalSupply - a

\* C22 witness: the custodial safe holds tokens, another account is
\* whitelisted, and the safe's transfer to it is rejected.
C22_Witness ==
    /\ simple.balances["custodian"] > 0
    /\ simple.whitelist["custodian"] /\ simple.whitelist["user"]
    /\ ~simple.paused
    /\ Simple_transfer(simple, "custodian", "user", 1).err = "TransferNotAllowed"

\* C23: in YRECTokenSimple every account other than the current custodial
\* safe has balance 0, and the custodial safe's balance equals totalSupply.
C23_OnlySafeHoldsBalance ==
    /\ \A a \in SimpleAccounts : (a # simple.custodialSafe) => simple.balances[a] = 0
    /\ simple.balances[simple.custodialSafe] = simple.totalSupply

\* C25: updateCustodialSafe and updateTimelock, called with a valid nonzero
\* address, succeed for a caller holding DEFAULT_ADMIN_ROLE and are rejected
\* for a caller without it.
C25_SafeAndTimelockByAdmin ==
    \A s \in SimpleAccounts :
        /\ \A x \in NewSafes \ {ZERO} :
              (Simple_updateCustodialSafe(simple, s, x).err = OK)
                  <=> hasRole(simple, DEFAULT_ADMIN_ROLE, s)
        /\ \A x \in NewTimelocks \ {ZERO, THIS} :
              (Simple_updateTimelock(simple, s, x).err = OK)
                  <=> hasRole(simple, DEFAULT_ADMIN_ROLE, s)

\* C24: when every operation is scheduled through scheduleEmergency, an
\* operation becomes executed only if at least MULTISIG_THRESHOLD distinct
\* emergency signers have approved its id beforehand.
C24_EmergencyStep ==
    \A id \in OperationIds :
        (~isOperationDone(timelock, id) /\ isOperationDone(timelock', id)) =>
            /\ timelock.emergencyApprovalCount[id] >= MULTISIG_THRESHOLD
            /\ Cardinality(timelock.emergencyApprovals[id]) >= MULTISIG_THRESHOLD

C24_EmergencyNeedsApprovals == [][C24_EmergencyStep]_vars

\* C26: every successful state-changing multisig call (submit, confirm with or
\* without execution, revoke) appends at least one event record, and every
\* change of a transaction's set of confirming owners is recorded by an event
\* of that call naming the transaction and the owner.
C26_LoggedStep ==
    (wallet' # wallet) =>
        /\ wallet'.logs # {}
        /\ \A id \in ExistingTxIds, o \in Owners :
              ((o \in Confs(wallet, id)) # (o \in Confs(wallet', id))) =>
                  \E e \in wallet'.logs : e.id = id /\ e.args = <<o>>

C26_EveryChangeIsLogged == [][C26_LoggedStep]_vars

\* C27: batchUpdateWhitelist, in YRECTokenFlexible and in YRECTokenSimple, called
\* by a whitelist manager with more than MAX_BATCH_SIZE (500) addresses is
\* rejected with BatchSizeExceeded and changes nothing; with at most 500
\* addresses (exactly 500 included) it succeeds, sets every listed nonzero
\* address to the requested status and leaves every other address alone.
C27_BatchOutcome(before, r, b, w, addrs) ==
    /\ (b[1] > MAX_BATCH_SIZE) =>
           r.err = "BatchSizeExceeded" /\ Commit(before, r) = before
    /\ (b[1] <= MAX_BATCH_SIZE) =>
           /\ r.err = OK
           /\ \A a \in addrs :
                 r.st.whitelist[a] =
                     IF a \in b[2] /\ a # ZERO THEN w ELSE before.whitelist[a]
           /\ [r.st EXCEPT !.whitelist = before.whitelist] = before

C27_BatchCap ==
    \A b \in Batches, w \in BOOLEAN :
        /\ (contract = "token") =>
              \A s \in Accounts :
                 hasRole(token, WHITELIST_MANAGER_ROLE, s) =>
                    C27_BatchOutcome(token,
                        Flex_batchUpdateWhitelist(token, s, b[1], b[2], w), b, w, Addr)
        /\ (contract = "simple") =>
              \A s \in SimpleAccounts :
                 hasRole(simple, WHITELIST_MANAGER_ROLE, s) =>
                    C27_BatchOutcome(simple,
                        Simple_batchUpdateWhitelist(simple, s, b[1], b[2], w), b, w, SimpleAddr)

C27_Witness ==
    /\ contract = "token"
    /\ token.totalSupply > 0
    /\ ~token.whitelist["user"]
    /\ hasRole(token, WHITELIST_MANAGER_ROLE, "owner")
    /\ Flex_batchUpdateWhitelist(token, "owner", MAX_BATCH_SIZE,
                                 {"owner", "user"}, TRUE).st.whitelist["user"]
    /\ Flex_batchUpdateWhitelist(token, "owner", MAX_BATCH_SIZE + 1,
                                 {"user"}, TRUE).err = "BatchSizeExceeded"

\* C28: the multisig executes in nonce order: no transaction is executed
\* while a transaction with a smaller nonce is still unexecuted.
C28_ExecutedInNonceOrder ==
    \A i \in ExistingTxIds, j \in ExistingTxIds :
        (Tx(wallet, i).nonce < Tx(wallet, j).nonce /\ Tx(wallet, j).executed) =>
            Tx(wallet, i).executed

\* C29: in YRECTokenFlexible every account's backing value equals its balance
\* in every state reachable by mint, burn, transfer (zero-amount and
\* self-transfers included), whitelist, flag and updateTotalIPValue calls.
\* Consequently a successful burn of amount removes exactly amount of backing
\* from the holder and from the total, a successful transfer of amount moves
\* exactly amount of backing, and while totalSupply equals the total backing
\* no well-formed mint and no burn fails the backing check or underflows.
C29_BackingEqualsBalance ==
    /\ \A a \in Addr : token.ipValuePerHolder[a] = token.balances[a]
    /\ \A s \in Accounts, from \in Accounts, amount \in Amounts :
          LET r == Flex_burn(token, s, from, amount)
          IN  /\ (r.err = OK) =>
                    /\ token.ipValuePerHolder[from] - r.st.ipValuePerHolder[from] = amount
                    /\ token.totalIPValue - r.st.totalIPValue = amount
              /\ (token.totalSupply = token.totalIPValue) =>
                    r.err \notin {"BackingMismatch", "Panic"}
    /\ \A A \in Accounts, B \in Accounts, amount \in Amounts :
          LET r == Flex_transfer(token, A, B, amount)
          IN  (r.err = OK) =>
                 /\ \A a \in Addr : r.st.ipValuePerHolder[a] = r.st.balances[a]
                 /\ (A # B) =>
                       /\ token.ipValuePerHolder[A] - r.st.ipValuePerHolder[A] = amount
                       /\ r.st.ipValuePerHolder[B] - token.ipValuePerHolder[B] = amount
                 /\ (A = B) => r.st.ipValuePerHolder = token.ipValuePerHolder
    /\ \A s \in Accounts, to \in Accounts, amount \in Amounts :
          (token.totalSupply = token.totalIPValue) =>
              Flex_mint(token, s, to, amount, amount).err # "BackingMismatch"

\* C29 witness: two holders, one able to burn or transfer part of its balance,
\* after partial operations have been possible, with a partial burn accepted.
C29_Witness ==
    /\ token.balances["custodian"] = 2
    /\ token.balances["user"] = 1
    /\ token.ipValuePerHolder["custodian"] = 2
    /\ Flex_burn(token, "owner", "custodian", 1).err = OK
    /\ Flex_transfer(token, "custodian", "user", 1).err = OK

\* C30: a partial burn (0 < amount < balance) removes exactly
\* ceil(backing * amount / balance), rounding up, from the holder's backing
\* value and from the total backing value; the removed share never exceeds the
\* holder's backing value; a burner's burn of more than the balance fails with
\* "Insufficient balance" and changes nothing.
C30_Ceil(x, y, d) ==
    CHOOSE n \in 0..(x * y) : n * d >= x * y /\ (n = 0 \/ (n - 1) * d < x * y)

C31_Floor(x, y, d) ==
    CHOOSE n \in 0..(x * y) : n * d <= x * y /\ x * y < (n + 1) * d

C32_AtTargetCall(o, id) ==
    LET s1 == [wallet EXCEPT !.confirmations[id + 1] = @ \cup {o}]
        s2 == [s1 EXCEPT !.transactions[id + 1].confirmationCount = @ + 1]
    IN  MS_markExecuted(s2, id)

C32_Executes(o, id) ==
    /\ MS_confirmTransaction(wallet, o, id, TRUE).err = OK
    /\ Tx(wallet, id).confirmationCount + 1 >= wallet.threshold

C32_ReentryRejected ==
    \A o \in Owners, id \in ExistingTxIds :
        C32_Executes(o, id) =>
            LET m == C32_AtTargetCall(o, id)
                r == MS_confirmTransaction(wallet, o, id, TRUE)
            IN  /\ [r.st EXCEPT !.logs = {}] = [m EXCEPT !.logs = {}]
                /\ Tx(m, id).executed
                /\ Tx(m, id).txHash \in m.executedTransactionHashes
                /\ \A s \in Senders, success \in BOOLEAN :
                      /\ MS_confirmTransaction(m, s, id, success).err # OK
                      /\ MS_revokeConfirmation(m, s, id).err # OK
                      /\ isOwner(m, s) =>
                            /\ MS_confirmTransaction(m, s, id, success).err
                                   = "Transaction already executed"
                            /\ MS_revokeConfirmation(m, s, id).err
                                   = "Transaction already executed"

\* C32 witness: a pending transaction that o2's confirmation would execute,
\* with another owner (o3) who has not confirmed it and could call back.
C32_Witness ==
    /\ contract = "wallet"
    /\ wallet.transactionCount > 0
    /\ C32_Executes("o2", 0)
    /\ Confs(wallet, 0) = {"o1"}

\* C33: every role-gated mutating call checks the caller's authorization first:
\* a caller lacking the required role or identity is rejected with the
\* authorization error whatever the whitelist, pause, nonce or argument checks
\* would say. Stated for YRECTokenFlexible mint/burn (MINTER_ROLE, BURNER_ROLE),
\* YRECTokenSimple mint/burn (the designated timelock) and SimpleMultisig
\* submit/confirm/revoke (owners).
C33_AuthorizationFirst ==
    /\ (contract = "token") =>
          \A s \in Accounts, a \in Addr, amount \in Amounts, ipValue \in Amounts :
             /\ ~hasRole(token, MINTER_ROLE, s) =>
                    Flex_mint(token, s, a, amount, ipValue).err
                        = "AccessControlUnauthorizedAccount"
             /\ ~hasRole(token, BURNER_ROLE, s) =>
                    Flex_burn(token, s, a, amount).err
                        = "AccessControlUnauthorizedAccount"
    /\ (contract = "simple") =>
          \A s \in SimpleAccounts, amount \in Amounts :
             (s # simple.timelock) =>
                /\ Simple_mint(simple, s, amount).err = "UnauthorizedMintBurn"
                /\ Simple_burn(simple, s, amount).err = "UnauthorizedMintBurn"
    /\ (contract = "wallet") =>
          \A s \in Senders, id \in TxIds, call \in Calls, nonce \in Nonces,
             success \in BOOLEAN :
             ~isOwner(wallet, s) =>
                /\ MS_submitTransaction(wallet, s, call, nonce, success).err = "Not an owner"
                /\ MS_confirmTransaction(wallet, s, id, success).err = "Not an owner"
                /\ MS_revokeConfirmation(wallet, s, id).err = "Not an owner"

\* C34: every transfer rejected for a compliance reason (an endpoint is not
\* whitelisted, or transfers are globally disabled) has emitted, by the time it
\* reverts, a compliance-violation record naming the sender and the recipient.
C34_ViolationIsRecorded ==
    \A A \in Accounts, B \in Accounts, v \in Amounts :
        LET r == Flex_transfer(token, A, B, v)
        IN  (r.err \in ComplianceErrors) =>
               \E e \in r.st.logs :
                  e.event = "ComplianceViolation" /\ e.from = A /\ e.to = B

\* C35: once updateTotalIPValue has made the total backing value differ from
\* totalSupply, every mint and every burn (any caller, any account, any amount)
\* is rejected, and stays rejected until the totals are equal again, which only
\* an updateTotalIPValue call brings about (no other call changes either total
\* meanwhile); transfers between whitelisted accounts still succeed.
C35_FrozenState ==
    (token.totalSupply # token.totalIPValue) =>
        /\ \A s \in Accounts, a \in Addr, amount \in Amounts, ipValue \in Amounts :
              /\ Flex_mint(token, s, a, amount, ipValue).err # OK
              /\ Flex_burn(token, s, a, amount).err # OK
        /\ \A A \in Accounts, B \in Accounts, v \in Amounts :
              (token.whitelist[A] /\ token.whitelist[B] /\ token.transfersEnabled
                  /\ ~token.paused /\ token.balances[A] >= v) =>
                 Flex_transfer(token, A, B, v).err = OK

C35_FrozenStep ==
    (token.totalSupply # token.totalIPValue) =>
        /\ token'.totalSupply = token.totalSupply
        /\ (token'.totalIPValue # token.totalIPValue) =>
              \E s \in Accounts :
                 /\ Flex_updateTotalIPValue(token, s, token'.totalIPValue).err = OK
                 /\ token' = Flex_updateTotalIPValue(token, s, token'.totalIPValue).st

C35_OverrideFreezesMintAndBurn == [] C35_FrozenState /\ [][C35_FrozenStep]_vars

\* C35 witness: tokens are held, the total backing value has been set away from
\* totalSupply, and a transfer between whitelisted accounts is accepted while a
\* minter's well-formed mint is not.
C35_Witness ==
    /\ token.totalSupply > 0
    /\ token.totalSupply # token.totalIPValue
    /\ token.balances["custodian"] > 0
    /\ Flex_transfer(token, "custodian", "owner", 1).err = OK
    /\ Flex_mint(token, "owner", "custodian", 1, 1).err = "BackingMismatch"

\* C36: in no reachable state does submitTransaction fail with the
\* already-executed replay error: every hash in the replay set embeds a nonce
\* strictly smaller than the current nonce, so whenever the supplied nonce
\* passes the strict nonce check the computed txHash is not in the replay set.
C36_ReplayErrorUnreachable ==
    /\ \A h \in wallet.executedTransactionHashes : h[4] < wallet.nonce
    /\ \A call \in Calls :
          generateTransactionHash(call, wallet.nonce)
              \notin wallet.executedTransactionHashes
    /\ \A s \in Senders, call \in Calls, nonce \in Nonces, success \in BOOLEAN :
          MS_submitTransaction(wallet, s, call, nonce, success).err
              # "TransactionAlreadyExecuted"

\* C36 witness: a transaction has been executed and an owner submits the same
\* (to, value, data) again with the current nonce; the submission is accepted.
C36_Witness ==
    /\ wallet.transactionCount = 1
    /\ Tx(wallet, 0).executed
    /\ Tx(wallet, 0).txHash \in wallet.executedTransactionHashes
    /\ MS_submitTransaction(wallet, "o1",
           [to |-> Tx(wallet, 0).to, value |-> Tx(wallet, 0).value,
            data |-> Tx(wallet, 0).data], wallet.nonce, TRUE).err = OK

\* C37: in every reachable state of SimpleMultisig the nonce equals
\* transactionCount and the transaction with id i carries nonce i; the nonce is
\* consumed by submitTransaction (also when the transaction is not executed),
\* and confirming, revoking and executing leave it alone.
C37_NonceIsTransactionCount ==
    /\ wallet.nonce = wallet.transactionCount
    /\ \A i \in ExistingTxIds : Tx(wallet, i).nonce = i
    /\ \A s \in Senders, call \in Calls, success \in BOOLEAN :
          LET r == MS_submitTransaction(wallet, s, call, wallet.nonce, success)
          IN  (r.err = OK) =>
                 /\ r.st.nonce = wallet.nonce + 1
                 /\ r.st.transactionCount = wallet.transactionCount + 1
                 /\ Tx(r.st, wallet.transactionCount).nonce = wallet.nonce
    /\ \A s \in Senders, id \in ExistingTxIds, success \in BOOLEAN :
          /\ Commit(wallet, MS_confirmTransaction(wallet, s, id, success)).nonce
                 = wallet.nonce
          /\ Commit(wallet, MS_revokeConfirmation(wallet, s, id)).nonce = wallet.nonce

\* C37 witness: two transactions submitted, the first still pending and the
\* second executed, with nonce 2.
C37_Witness ==
    /\ wallet.transactionCount = 2
    /\ wallet.nonce = 2
    /\ ~Tx(wallet, 0).executed
    /\ Tx(wallet, 1).executed

\* C38: in every state between calls a multisig transaction is executed if and
\* only if its confirmationCount is at least the threshold: an unexecuted one
\* has confirmationCount < threshold, an executed one has confirmationCount
\* exactly the threshold; confirmationCount is the number of confirming owners;
\* and the owner set and the threshold never change after construction, with
\* 1 <= threshold <= number of owners.
C38_ThresholdState ==
    /\ wallet.threshold >= 1
    /\ wallet.threshold <= Cardinality(wallet.owners)
    /\ wallet.owners = Owners
    /\ \A id \in ExistingTxIds :
          /\ Tx(wallet, id).executed <=> Tx(wallet, id).confirmationCount >= wallet.threshold
          /\ ~Tx(wallet, id).executed => Tx(wallet, id).confirmationCount < wallet.threshold
          /\ Tx(wallet, id).executed => Tx(wallet, id).confirmationCount = wallet.threshold
          /\ Tx(wallet, id).confirmationCount = Cardinality(Confs(wallet, id))

C38_ThresholdStep ==
    /\ wallet'.owners = wallet.owners
    /\ wallet'.threshold = wallet.threshold

C38_ExecutedIffThreshold == [] C38_ThresholdState /\ [][C38_ThresholdStep]_vars

\* C38 witness: with threshold 2, one transaction executed with two
\* confirmations next to one still pending with a single confirmation.
C38_Witness ==
    /\ wallet.threshold = 2
    /\ wallet.transactionCount = 2
    /\ Tx(wallet, 0).executed /\ Tx(wallet, 0).confirmationCount = 2
    /\ ~Tx(wallet, 1).executed /\ Tx(wallet, 1).confirmationCount = 1

\* C39: scheduleEmergency schedules with a reduced delay: a proposer's
\* scheduleEmergency of an operation not yet scheduled succeeds, and the
\* readyTimestamp it stores is no later than the one the regular schedule path
\* stores for the same operation at the same time with delay minDelay.
C39_EmergencyIsNotSlower ==
    \A sender \in TLSenders, op \in Operations :
        (hasRole(timelock, PROPOSER_ROLE, sender)
            /\ getTimestamp(timelock, hashOperation(op)) = 0) =>
           LET e == TL_scheduleEmergency(timelock, now, sender, op)
               g == TL_schedule(timelock, now, sender, op, timelock.minDelay)
           IN  /\ e.err = OK
               /\ g.err = OK
               /\ getTimestamp(e.st, hashOperation(op))
                      <= getTimestamp(g.st, hashOperation(op))

\* C40: mint and burn are exempt from the transfersEnabled flag. In
\* YRECTokenFlexible a mint by a minter to a whitelisted account with
\* amount = ipValue > 0, and a burn by a burner of no more than the holder's
\* balance, succeed when the token is not paused and the supply is 1:1 backed
\* (totalSupply = total backing value), whether transfersEnabled is true or
\* false; and the outcome of every mint and burn is the same under either
\* value of the flag.
C40_Flipped == [token EXCEPT !.transfersEnabled = ~@]

C40_MintBurnIgnoreTransferFlag ==
    /\ \A s \in Accounts, a \in Accounts, amount \in Amounts :
          /\ (hasRole(token, MINTER_ROLE, s) /\ token.whitelist[a] /\ amount > 0
                 /\ ~token.paused /\ token.totalSupply = token.totalIPValue) =>
                /\ Flex_mint(token, s, a, amount, amount).err = OK
                /\ Flex_mint(C40_Flipped, s, a, amount, amount).err = OK
          /\ (hasRole(token, BURNER_ROLE, s) /\ token.balances[a] >= amount
                 /\ ~token.paused /\ token.totalSupply = token.totalIPValue) =>
                /\ Flex_burn(token, s, a, amount).err = OK
                /\ Flex_burn(C40_Flipped, s, a, amount).err = OK
    /\ \A s \in Accounts, a \in Addr, amount \in Amounts, ipValue \in Amounts :
          /\ Flex_mint(token, s, a, amount, ipValue).err
                = Flex_mint(C40_Flipped, s, a, amount, ipValue).err
          /\ Flex_burn(token, s, a, amount).err = Flex_burn(C40_Flipped, s, a, amount).err

\* C40 witness: transfers are disabled, tokens are held, and both a mint and a
\* burn are accepted.
C40_Witness ==
    /\ ~token.transfersEnabled
    /\ token.balances["custodian"] > 0
    /\ Flex_mint(token, "owner", "custodian", 1, 1).err = OK
    /\ Flex_burn(token, "owner", "custodian", 1).err = OK

====
